---- MODULE Spec2Model ----
(***************************************************************************)
(* Product catalog API: the role/permission table, the protect,           *)
(* checkPermission and checkOwnership middleware, and the product,        *)
(* variant, inventory and report routes with their handlers, over a       *)
(* store of users, products, variants and inventory records.              *)
(***************************************************************************)
EXTENDS Integers, FiniteSets, Sequences, TLC

\* ------------------------------------------------------------------------
\* Bounds of the model
\* ------------------------------------------------------------------------
MaxProductId == 1
MaxVariantId == 1
MaxInventoryId == 1
MaxQuantity == 1
MaxCategoryId == 2
MaxRegistered == 2
MaxImages == 2
MaxSkuProducts == 2
MaxPending == 2
MaxClock == 3

\* ------------------------------------------------------------------------
\* Permission table (middleware/permission)
\* ------------------------------------------------------------------------
Roles == {"admin", "seller", "buyer"}
Resources == {"categories", "products", "variants", "inventory", "reports", "users"}
Actions == {"view", "create", "update", "delete"}

\* the `permissions` object literal: its own properties
permissions ==
  [ admin  |-> [ categories |-> {"view", "create", "update", "delete"},
                 products   |-> {"view", "create", "update", "delete"},
                 variants   |-> {"view", "create", "update", "delete"},
                 inventory  |-> {"view", "update"},
                 reports    |-> {"view"},
                 users      |-> {"view", "create", "update", "delete"} ],
    seller |-> [ categories |-> {"view"},
                 products   |-> {"view", "create", "update", "delete"},
                 variants   |-> {"view", "create", "update", "delete"},
                 inventory  |-> {"view", "update"},
                 reports    |-> {"view"},
                 users      |-> {"view"} ],
    buyer  |-> [ categories |-> {"view"},
                 products   |-> {"view"},
                 variants   |-> {"view"},
                 inventory  |-> {},
                 reports    |-> {},
                 users      |-> {} ] ]

\* Values a property read can produce.  kind: "undefined", "object" (the
\* per-role table, role names it), "array" (items), "function" (fn names
\* it), "string" (str).
JsUndefined == [kind |-> "undefined", role |-> "", items |-> {}, fn |-> "", str |-> ""]
JsRoleObject(r) == [kind |-> "object", role |-> r, items |-> {}, fn |-> "", str |-> ""]
JsArray(s) == [kind |-> "array", role |-> "", items |-> s, fn |-> "", str |-> ""]
JsFunction(f) == [kind |-> "function", role |-> "", items |-> {}, fn |-> f, str |-> ""]
JsString(s) == [kind |-> "string", role |-> "", items |-> {}, fn |-> "", str |-> s]

\* the role read from a request without a user, or from a user without a role
NoRole == "null"

\* Names used as role, resource and action arguments: the table's own,
\* names it does not list, and names every object inherits.
ProbeRoles == Roles \cup {"manager", "constructor", NoRole}
ProbeResources == Resources \cup {"orders", "constructor", "name"}
ProbeActions == Actions \cup {"purge", "Object"}

\* permissions[role]: an own property, or one inherited from Object.prototype
PermissionsGet(role) ==
  IF role \in Roles THEN JsRoleObject(role)
  ELSE IF role = "constructor" THEN JsFunction("Object")
  ELSE JsUndefined

\* permissions[role][resource], for a truthy permissions[role]
RoleValueGet(v, resource) ==
  IF v.kind = "object"
  THEN IF resource \in Resources THEN JsArray(permissions[v.role][resource])
       ELSE IF resource = "constructor" THEN JsFunction("Object")
       ELSE JsUndefined
  ELSE IF v.kind = "function"
  THEN IF resource = "constructor" THEN JsFunction("Function")
       ELSE IF resource = "name" THEN JsString(v.fn)
       ELSE JsUndefined
  ELSE JsUndefined

\* !v
Falsy(v) == v.kind = "undefined" \/ (v.kind = "string" /\ v.str = "")

\* v.includes(action): Array.prototype.includes, String.prototype.includes
\* (among ProbeActions only the whole string is a substring of itself), and
\* a TypeError for a value that has no includes method.
Includes(v, action) ==
  IF v.kind = "array" THEN (IF action \in v.items THEN "true" ELSE "false")
  ELSE IF v.kind = "string" THEN (IF action = v.str THEN "true" ELSE "false")
  ELSE "TypeError"

HasPermissionIgnoringAction(role, resource, action) ==
  IF Falsy(PermissionsGet(role)) THEN "false"
  ELSE IF Falsy(RoleValueGet(PermissionsGet(role), resource)) THEN "false"
  ELSE IF RoleValueGet(PermissionsGet(role), resource).kind = "array"
       THEN (IF RoleValueGet(PermissionsGet(role), resource).items # {} THEN "true" ELSE "false")
       ELSE Includes(RoleValueGet(PermissionsGet(role), resource), action)

\* hasPermission(role, resource, action): "true", "false", or "TypeError"
\* when the call throws
hasPermission(role, resource, action) ==
  IF Falsy(PermissionsGet(role)) THEN "false"
  ELSE IF Falsy(RoleValueGet(PermissionsGet(role), resource)) THEN "false"
  ELSE Includes(RoleValueGet(PermissionsGet(role), resource), action)

\* checkPermission(resource, action)(req, res, next) for a request whose
\* req.user is absent (hasUser = FALSE) or carries `role`:
\* "403", "next", or "TypeError" when hasPermission throws
checkPermission(resource, action, hasUser, role) ==
  IF (~hasUser) \/ role = NoRole THEN "403"
  ELSE IF hasPermission(role, resource, action) = "TypeError" THEN "TypeError"
  ELSE IF hasPermission(role, resource, action) = "false" THEN "403"
  ELSE "next"

\* ------------------------------------------------------------------------
\* Store: users, categories, products, variants, inventory
\* ------------------------------------------------------------------------
VARIABLES
  users,       \* users table: id -> [role, isActive, email], for the rows that exist
  categories,  \* categories table: id -> [name, parentId]
  products,    \* products table: id -> [userId, sku, categoryId, isActive, images]
  variants,    \* variants table: id -> [productId, sku, images]
  inventory,   \* inventory table: id -> [productId, variantId, sku, quantity]
  nextId,      \* auto-increment counters of the tables
  last,        \* the last request handled and its answer
  probe,       \* the last direct call of the permission functions
  pending,     \* requests whose handler is between two of its store operations
  now          \* the clock, in ticks

vars == <<users, categories, products, variants, inventory, nextId, last, probe, pending, now>>

\* registered accounts; User.role is an ENUM('admin', 'seller', 'buyer')
UserIds == 1..4
UserRole == [u \in UserIds |-> IF u = 1 THEN "admin" ELSE IF u = 4 THEN "buyer" ELSE "seller"]
UserEmail == [u \in UserIds |-> IF u = 1 THEN "admin@x" ELSE IF u = 4 THEN "buyer@x"
                                ELSE IF u = 2 THEN "s2@x" ELSE "s3@x"]

\* passwords are stored as bcrypt hashes (the beforeSave hook), reset
\* tokens as sha256 digests
Passwords == {"pw-a", "pw-b"}
InitialPassword == "pw-a"
bcryptHash(p) == [alg |-> "bcrypt", of |-> p]
sha256(t) == [alg |-> "sha256", of |-> t]
NoHash == [alg |-> "none", of |-> ""]

ProductIds == 1..MaxProductId
VariantIds == 1..MaxVariantId
InventoryIds == 1..MaxInventoryId
CategoryIds == 1..MaxCategoryId

\* a column holding NULL, a missing body field, a missing route parameter
Null == 0
Undefined == "undefined"
NoQuantity == -1

ProductSkus == {"p-a", "p-b"}
VariantSkus == {"v-a", "v-b"}

Store == [products |-> products, variants |-> variants, inventory |-> inventory,
          categories |-> categories, nextId |-> nextId]

\* rows of a table that satisfy a condition
InventoryOfProduct(st, pid) ==
  {i \in DOMAIN st.inventory : st.inventory[i].productId = pid /\ st.inventory[i].variantId = Null}
InventoryOfVariant(st, vid) ==
  {i \in DOMAIN st.inventory : st.inventory[i].variantId = vid /\ st.inventory[i].productId = Null}
VariantsOfProduct(st, pid) == {v \in DOMAIN st.variants : st.variants[v].productId = pid}

\* Model.create: the row is stored under the table's next auto-increment id
Insert(table, id, row) == [i \in DOMAIN table \cup {id} |-> IF i = id THEN row ELSE table[i]]
Remove(table, ids) == [i \in DOMAIN table \ ids |-> table[i]]

\* the unique index on inventory.sku: would storing `sku` in row `self`
\* (Null for a new row) collide with another row?
InventorySkuTaken(st, sku, self) ==
  \E i \in DOMAIN st.inventory : i # self /\ st.inventory[i].sku = sku

\* ------------------------------------------------------------------------
\* Authentication (middleware/auth)
\* ------------------------------------------------------------------------
\* What the Authorization header of a request carries: nothing (or not a
\* Bearer token), a token jwt.verify rejects, an expired token, or a token
\* signToken issued for user `uid` that verifies.
NoAuth == [kind |-> "none", uid |-> Null]
BadToken == [kind |-> "malformed", uid |-> Null]
ExpiredToken(u) == [kind |-> "expired", uid |-> u]
ValidToken(u) == [kind |-> "valid", uid |-> u]

AllAuths == {NoAuth, BadToken} \cup {ExpiredToken(u) : u \in UserIds}
              \cup {ValidToken(u) : u \in UserIds}
\* requests of the catalog specification: no header, or a token that verifies
CatalogAuths == {NoAuth} \cup {ValidToken(u) : u \in UserIds}
\* the sellers' tokens
SellerAuths == {ValidToken(u) : u \in {x \in UserIds : UserRole[x] = "seller"}}

ProtectSkippingActiveCheck(auth, us) ==
  IF auth.kind = "none" THEN [status |-> 401, user |-> Null]
  ELSE IF auth.kind \in {"malformed", "expired"} THEN [status |-> 401, user |-> Null]
  ELSE IF auth.uid \notin DOMAIN us THEN [status |-> 401, user |-> Null]
  ELSE [status |-> 0, user |-> auth.uid]

\* protect(req, res, next) against the users table `us`: status 401, or
\* status 0 (next is called) with req.user set to the row of `user`
protect(auth, us) ==
  IF auth.kind = "none" THEN [status |-> 401, user |-> Null]
  ELSE IF auth.kind \in {"malformed", "expired"} THEN [status |-> 401, user |-> Null]
  ELSE IF auth.uid \notin DOMAIN us THEN [status |-> 401, user |-> Null]
  ELSE IF ~us[auth.uid].isActive THEN [status |-> 401, user |-> Null]
  ELSE [status |-> 0, user |-> auth.uid]

\* ------------------------------------------------------------------------
\* Request bodies and validation (routes, middleware/validator)
\* ------------------------------------------------------------------------
\* valid: the fields not modelled (name, basePrice, ...) pass their rules.
\* inv: the quantity of body.inventory, NoQuantity when the body has none.
\* userId: a userId field the client put in the body, Null when it put none.
InvalidProductBody == [valid |-> FALSE, sku |-> Undefined, categoryId |-> Null, inv |-> NoQuantity,
                       userId |-> Null]
CreateProductBodies ==
  {InvalidProductBody} \cup
  [valid : {TRUE}, sku : ProductSkus, categoryId : {1, 2}, inv : {NoQuantity, MaxQuantity},
   userId : {Null, 3}]
UpdateProductBodies ==
  {InvalidProductBody, [valid |-> TRUE, sku |-> Undefined, categoryId |-> 2, inv |-> NoQuantity,
                        userId |-> Null]}
  \cup [valid : {TRUE}, sku : ProductSkus \cup {Undefined}, categoryId : {Null},
        inv : {NoQuantity, 0}, userId : {Null}]
InvalidVariantBody == [valid |-> FALSE, sku |-> Undefined, inv |-> NoQuantity]
CreateVariantBodies ==
  {InvalidVariantBody} \cup [valid : {TRUE}, sku : VariantSkus, inv : {NoQuantity, MaxQuantity}]
UpdateVariantBodies ==
  {InvalidVariantBody} \cup
  [valid : {TRUE}, sku : VariantSkus \cup {Undefined}, inv : {NoQuantity, 0}]
InventoryBodies ==
  {[valid |-> FALSE, quantity |-> NoQuantity]} \cup
  [valid : {TRUE}, quantity : {NoQuantity} \cup (0..MaxQuantity)]
\* well-formed creations that set the scene for the inventory and
\* authentication specifications
SeedProductBodies == [valid : {TRUE}, sku : ProductSkus, categoryId : {1}, inv : {MaxQuantity},
                      userId : {Null}]
SeedVariantBodies == [valid : {TRUE}, sku : VariantSkus, inv : {MaxQuantity}]
PlainProductBodies == [valid : {TRUE}, sku : ProductSkus, categoryId : {1}, inv : {NoQuantity},
                       userId : {Null}]

\* POST /api/products: name, sku, basePrice and categoryId are required
ValidCreateProduct(b) == b.valid /\ b.sku # Undefined /\ b.categoryId # Null
\* PUT /api/products/:id: every field is optional
ValidUpdateProduct(b) == b.valid
\* POST /api/products/:id/variants: sku and price are required
ValidCreateVariant(b) == b.valid /\ b.sku # Undefined
\* PUT /api/products/:productId/variants/:id: every field is optional
ValidUpdateVariant(b) == b.valid
\* PUT /api/inventory/:id: every field is optional
ValidUpdateInventory(b) == b.valid

\* ------------------------------------------------------------------------
\* Product and variant handlers (controllers/productController)
\* Each returns the answer's status and the store it leaves; an answer
\* given after transaction.rollback() leaves the store it found.
\* ------------------------------------------------------------------------
Answer(n, st) == [status |-> n, st |-> st]
\* an answer with the message of its error body
AnswerWith(n, st, msg) == [status |-> n, st |-> st, msg |-> msg]
NoMessage == ""
ProductNotFound == "Product not found"

\* isActive !== undefined ? isActive : <default>, for a body that may carry isActive
BodyIsActive(b, default) == IF "isActive" \in DOMAIN b THEN b.isActive ELSE default

SkuUsedByProduct(st, sku, self) ==
  \E p \in DOMAIN st.products : p # self /\ st.products[p].sku = sku
SkuUsedByVariant(st, sku, self) ==
  \E v \in DOMAIN st.variants : v # self /\ st.variants[v].sku = sku

\* Inventory.create({productId, variantId, sku, quantity}, {transaction})
WithNewInventory(st, pid, vid, sku, qty) ==
  [st EXCEPT !.inventory = Insert(st.inventory, st.nextId.inventory,
                                  [productId |-> pid, variantId |-> vid, sku |-> sku,
                                   quantity |-> qty]),
             !.nextId.inventory = st.nextId.inventory + 1]

CreateProductOwnerFromBody(st, cats, uid, b) ==
  IF b.categoryId \notin cats THEN Answer(400, st)
  ELSE IF b.sku # Undefined /\ SkuUsedByProduct(st, b.sku, Null) THEN Answer(400, st)
  ELSE LET id == st.nextId.product
           created == [st EXCEPT !.products = Insert(st.products, id,
                                     [userId |-> IF b.userId # Null THEN b.userId ELSE uid,
                                      sku |-> b.sku,
                                      categoryId |-> b.categoryId,
                                      isActive |-> BodyIsActive(b, TRUE),
                                      images |-> 0]),
                                 !.nextId.product = id + 1]
       IN IF b.inv = NoQuantity THEN Answer(201, created)
          ELSE IF InventorySkuTaken(st, b.sku, Null) THEN Answer(400, st)
          ELSE Answer(201, WithNewInventory(created, id, Null, b.sku, b.inv))

\* exports.createProduct.  The product's fields are copied one by one from
\* the body, which has no part in userId; created products carry no images.
createProduct(st, cats, uid, b) ==
  IF b.categoryId \notin cats THEN Answer(400, st)
  ELSE IF b.sku # Undefined /\ SkuUsedByProduct(st, b.sku, Null) THEN Answer(400, st)
  ELSE LET id == st.nextId.product
           created == [st EXCEPT !.products = Insert(st.products, id,
                                     [userId |-> uid, sku |-> b.sku,
                                      categoryId |-> b.categoryId,
                                      isActive |-> BodyIsActive(b, TRUE),
                                      images |-> 0]),
                                 !.nextId.product = id + 1]
       IN IF b.inv = NoQuantity THEN Answer(201, created)
          ELSE IF InventorySkuTaken(st, b.sku, Null) THEN Answer(400, st)
          ELSE Answer(201, WithNewInventory(created, id, Null, b.sku, b.inv))

\* an update that writes the userId of the body with the other fields
ApplyProductUpdateTakingUserId(st, cats, id, b) ==
  LET product == st.products[id]
      newSku == IF b.sku # Undefined THEN b.sku ELSE product.sku
      newCat == IF b.categoryId # Null THEN b.categoryId ELSE product.categoryId
      updated == [st EXCEPT !.products[id].sku = newSku,
                            !.products[id].categoryId = newCat,
                            !.products[id].userId =
                               IF b.userId # Null THEN b.userId ELSE product.userId,
                            !.products[id].isActive = BodyIsActive(b, product.isActive)]
      existing == InventoryOfProduct(st, id)
  IN IF b.categoryId # Null /\ b.categoryId # product.categoryId /\ b.categoryId \notin cats
     THEN Answer(400, st)
     ELSE IF b.sku # Undefined /\ b.sku # product.sku /\ SkuUsedByProduct(st, b.sku, id)
     THEN Answer(400, st)
     ELSE IF b.inv = NoQuantity THEN Answer(200, updated)
     ELSE IF existing # {}
     THEN LET i == CHOOSE x \in existing : TRUE
          IN IF InventorySkuTaken(st, newSku, i) THEN Answer(400, st)
             ELSE Answer(200, [updated EXCEPT !.inventory[i].sku = newSku,
                                              !.inventory[i].quantity = b.inv])
     ELSE IF InventorySkuTaken(st, newSku, Null) THEN Answer(400, st)
     ELSE Answer(200, WithNewInventory(updated, id, Null, newSku, b.inv))

\* updateProduct once the product is found and the requester may update it
ApplyProductUpdate(st, cats, id, b) ==
  LET product == st.products[id]
      newSku == IF b.sku # Undefined THEN b.sku ELSE product.sku
      newCat == IF b.categoryId # Null THEN b.categoryId ELSE product.categoryId
      updated == [st EXCEPT !.products[id].sku = newSku,
                            !.products[id].categoryId = newCat,
                            !.products[id].isActive = BodyIsActive(b, product.isActive)]
      existing == InventoryOfProduct(st, id)
  IN IF b.categoryId # Null /\ b.categoryId # product.categoryId /\ b.categoryId \notin cats
     THEN Answer(400, st)
     ELSE IF b.sku # Undefined /\ b.sku # product.sku /\ SkuUsedByProduct(st, b.sku, id)
     THEN Answer(400, st)
     ELSE IF b.inv = NoQuantity THEN Answer(200, updated)
     ELSE IF existing # {}
     THEN LET i == CHOOSE x \in existing : TRUE
          IN IF InventorySkuTaken(st, newSku, i) THEN Answer(400, st)
             ELSE Answer(200, [updated EXCEPT !.inventory[i].sku = newSku,
                                              !.inventory[i].quantity = b.inv])
     ELSE IF InventorySkuTaken(st, newSku, Null) THEN Answer(400, st)
     ELSE Answer(200, WithNewInventory(updated, id, Null, newSku, b.inv))

UpdateProductNoOwnerCheck(st, cats, uid, role, id, b) ==
  IF id \notin DOMAIN st.products THEN Answer(404, st)
  ELSE ApplyProductUpdate(st, cats, id, b)

\* exports.updateProduct
updateProduct(st, cats, uid, role, id, b) ==
  IF id \notin DOMAIN st.products THEN Answer(404, st)
  ELSE IF role # "admin" /\ st.products[id].userId # uid THEN Answer(403, st)
  ELSE ApplyProductUpdate(st, cats, id, b)

\* product.destroy without the ON DELETE CASCADE of the associations
DestroyProductNoCascade(st, id) ==
  [st EXCEPT !.products = Remove(st.products, {id})]

\* product.destroy(): the row, and by ON DELETE CASCADE its variants, its
\* inventory and the inventory of its variants
DestroyProduct(st, id) ==
  LET vs == VariantsOfProduct(st, id)
      is == {i \in DOMAIN st.inventory :
               st.inventory[i].productId = id \/ st.inventory[i].variantId \in vs}
  IN [st EXCEPT !.products = Remove(st.products, {id}),
                !.variants = Remove(st.variants, vs),
                !.inventory = Remove(st.inventory, is)]

DeleteProductOwnerCheckFirst(st, uid, role, id) ==
  IF role # "admin" /\ (id \notin DOMAIN st.products \/ st.products[id].userId # uid)
  THEN Answer(403, st)
  ELSE IF id \notin DOMAIN st.products THEN Answer(404, st)
  ELSE Answer(200, DestroyProduct(st, id))

\* exports.getProductById: 404 for a missing product, and for an inactive one
\* unless req.user is an admin or the seller who owns it
getProductById(st, hasUser, uid, role, id) ==
  IF id \notin DOMAIN st.products THEN AnswerWith(404, st, ProductNotFound)
  ELSE IF ~st.products[id].isActive
          /\ (~hasUser \/ (role # "admin"
                             /\ ~(role = "seller" /\ uid = st.products[id].userId)))
  THEN AnswerWith(404, st, ProductNotFound)
  ELSE AnswerWith(200, st, NoMessage)

\* getProductVariants without its check of product.isActive
GetProductVariantsShowingInactive(st, hasUser, uid, role, id) ==
  IF id \notin DOMAIN st.products THEN AnswerWith(404, st, ProductNotFound)
  ELSE AnswerWith(200, st, NoMessage)

\* exports.getProductVariants: as getProductById, then the variants of the product
getProductVariants(st, hasUser, uid, role, id) ==
  IF id \notin DOMAIN st.products THEN AnswerWith(404, st, ProductNotFound)
  ELSE IF ~st.products[id].isActive
          /\ (~hasUser \/ (role # "admin"
                             /\ ~(role = "seller" /\ uid = st.products[id].userId)))
  THEN AnswerWith(404, st, ProductNotFound)
  ELSE AnswerWith(200, st, NoMessage)

\* exports.deleteProduct
deleteProduct(st, uid, role, id) ==
  IF id \notin DOMAIN st.products THEN Answer(404, st)
  ELSE IF role # "admin" /\ st.products[id].userId # uid THEN Answer(403, st)
  ELSE Answer(200, DestroyProduct(st, id))

\* a variant whose inventory record names the product as well
CreateProductVariantInventoryOnBoth(st, uid, role, pid, b) ==
  IF pid \notin DOMAIN st.products THEN Answer(404, st)
  ELSE IF role # "admin" /\ st.products[pid].userId # uid THEN Answer(403, st)
  ELSE IF SkuUsedByVariant(st, b.sku, Null) THEN Answer(400, st)
  ELSE LET id == st.nextId.variant
           created == [st EXCEPT !.variants = Insert(st.variants, id,
                                     [productId |-> pid, sku |-> b.sku, images |-> 0]),
                                 !.nextId.variant = id + 1]
       IN IF b.inv = NoQuantity THEN Answer(201, created)
          ELSE IF InventorySkuTaken(st, b.sku, Null) THEN Answer(400, st)
          ELSE Answer(201, WithNewInventory(created, pid, id, b.sku, b.inv))

\* exports.createProductVariant
createProductVariant(st, uid, role, pid, b) ==
  IF pid \notin DOMAIN st.products THEN Answer(404, st)
  ELSE IF role # "admin" /\ st.products[pid].userId # uid THEN Answer(403, st)
  ELSE IF SkuUsedByVariant(st, b.sku, Null) THEN Answer(400, st)
  ELSE LET id == st.nextId.variant
           created == [st EXCEPT !.variants = Insert(st.variants, id,
                                     [productId |-> pid, sku |-> b.sku, images |-> 0]),
                                 !.nextId.variant = id + 1]
       IN IF b.inv = NoQuantity THEN Answer(201, created)
          ELSE IF InventorySkuTaken(st, b.sku, Null) THEN Answer(400, st)
          ELSE Answer(201, WithNewInventory(created, Null, id, b.sku, b.inv))

\* updateProductVariant once the product is found and the requester may
\* update its variants
ApplyVariantUpdate(st, pid, id, b) ==
  IF ~(id \in DOMAIN st.variants /\ st.variants[id].productId = pid) THEN Answer(404, st)
  ELSE LET variant == st.variants[id]
           newSku == IF b.sku # Undefined THEN b.sku ELSE variant.sku
           updated == [st EXCEPT !.variants[id].sku = newSku]
           existing == InventoryOfVariant(st, id)
       IN IF b.sku # Undefined /\ b.sku # variant.sku /\ SkuUsedByVariant(st, b.sku, id)
          THEN Answer(400, st)
          ELSE IF b.inv = NoQuantity THEN Answer(200, updated)
          ELSE IF existing # {}
          THEN LET i == CHOOSE x \in existing : TRUE
               IN IF InventorySkuTaken(st, newSku, i) THEN Answer(400, st)
                  ELSE Answer(200, [updated EXCEPT !.inventory[i].sku = newSku,
                                                   !.inventory[i].quantity = b.inv])
          ELSE IF InventorySkuTaken(st, newSku, Null) THEN Answer(400, st)
          ELSE Answer(200, WithNewInventory(updated, Null, id, newSku, b.inv))

UpdateVariantNoOwnerCheck(st, uid, role, pid, id, b) ==
  IF pid \notin DOMAIN st.products THEN Answer(404, st)
  ELSE ApplyVariantUpdate(st, pid, id, b)

\* exports.updateProductVariant
updateProductVariant(st, uid, role, pid, id, b) ==
  IF pid \notin DOMAIN st.products THEN Answer(404, st)
  ELSE IF role # "admin" /\ st.products[pid].userId # uid THEN Answer(403, st)
  ELSE ApplyVariantUpdate(st, pid, id, b)

\* variant.destroy(): the row, and by ON DELETE CASCADE its inventory
DestroyVariant(st, id) ==
  [st EXCEPT !.variants = Remove(st.variants, {id}),
             !.inventory = Remove(st.inventory,
                                  {i \in DOMAIN st.inventory : st.inventory[i].variantId = id})]

\* a delete that looks the variant up by its id alone
DeleteProductVariantOfAnyProduct(st, uid, role, pid, id) ==
  IF pid \notin DOMAIN st.products THEN Answer(404, st)
  ELSE IF role # "admin" /\ st.products[pid].userId # uid THEN Answer(403, st)
  ELSE IF id \notin DOMAIN st.variants THEN Answer(404, st)
  ELSE Answer(200, DestroyVariant(st, id))

\* exports.deleteProductVariant
deleteProductVariant(st, uid, role, pid, id) ==
  IF pid \notin DOMAIN st.products THEN Answer(404, st)
  ELSE IF role # "admin" /\ st.products[pid].userId # uid THEN Answer(403, st)
  ELSE IF ~(id \in DOMAIN st.variants /\ st.variants[id].productId = pid) THEN Answer(404, st)
  ELSE Answer(200, DestroyVariant(st, id))

\* ------------------------------------------------------------------------
\* Ownership middleware (middleware/permission), for the Product model
\* ------------------------------------------------------------------------
\* checkOwnership(Product)(req, res, next): the status answered, 0 when next
\* is called, 500 when reading req.user.id throws and the catch block hands
\* the TypeError to the error handler
checkOwnership(st, hasUser, uid, role, resourceId) ==
  IF hasUser /\ role = "admin" THEN 0
  ELSE IF resourceId = Null THEN 400
  ELSE IF resourceId \notin DOMAIN st.products THEN 404
  ELSE IF ~hasUser THEN 500
  ELSE IF st.products[resourceId].userId # uid THEN 403
  ELSE 0

\* ------------------------------------------------------------------------
\* Errors thrown by the store (middleware/errorHandler)
\* ------------------------------------------------------------------------
\* names of the errors a query of the store can reject with: the connection
\* is refused or lost, the query fails in the database, the query times out
StoreErrors == {"SequelizeConnectionError", "SequelizeDatabaseError", "SequelizeTimeoutError"}

\* errorHandler(err, req, res, next): the status answered for an error of
\* that name; none of these errors carries a statusCode
errorHandler(err) ==
  IF err \in {"SequelizeValidationError", "SequelizeUniqueConstraintError"} THEN 400
  ELSE IF err = "SequelizeDatabaseError" THEN 400
  ELSE 500

\* updateProduct, deleteProduct, createProductVariant, updateProductVariant
\* and deleteProductVariant when their Product.findByPk rejects with err: the
\* catch block rolls the transaction back and hands err to the error handler
handlerLookupThrows(st, err) == Answer(errorHandler(err), st)

\* checkOwnership(Product) when model.findByPk rejects with err: the status
\* answered, 0 when next() is called
checkOwnershipLookupThrows(hasUser, role, resourceId, err) ==
  IF hasUser /\ role = "admin" THEN 0
  ELSE IF resourceId = Null THEN 400
  ELSE errorHandler(err)

\* ------------------------------------------------------------------------
\* createProduct and updateProduct in two steps, for requests that
\* interleave: the handler up to its SKU lookup, then Product.create or
\* product.update, where the unique index on products.sku decides
\* ------------------------------------------------------------------------
UniqueConstraintError == "SequelizeUniqueConstraintError"

\* createProduct up to Product.create: 400, or 0 when the handler goes on
createProductLookups(st, cats, b) ==
  IF b.categoryId \notin cats THEN 400
  ELSE IF b.sku # Undefined /\ SkuUsedByProduct(st, b.sku, Null) THEN 400
  ELSE 0

\* Product.create on a table without the unique index on sku
CreateProductWithoutUniqueIndex(st, cats, uid, b) ==
  LET id == st.nextId.product
      created == [st EXCEPT !.products = Insert(st.products, id,
                                [userId |-> uid, sku |-> b.sku,
                                 categoryId |-> b.categoryId,
                                      isActive |-> BodyIsActive(b, TRUE),
                                 images |-> 0]),
                            !.nextId.product = id + 1]
  IN IF b.inv = NoQuantity THEN Answer(201, created)
     ELSE IF InventorySkuTaken(st, b.sku, Null) THEN Answer(400, st)
     ELSE Answer(201, WithNewInventory(created, id, Null, b.sku, b.inv))

\* createProduct from Product.create on, against the store as it is by
\* then: the unique index rejects a sku stored meanwhile, the catch block
\* rolls back and the error handler answers
createProductFromCreate(st, cats, uid, b) ==
  IF SkuUsedByProduct(st, b.sku, Null) THEN Answer(errorHandler(UniqueConstraintError), st)
  ELSE LET id == st.nextId.product
           created == [st EXCEPT !.products = Insert(st.products, id,
                                     [userId |-> uid, sku |-> b.sku,
                                      categoryId |-> b.categoryId,
                                      isActive |-> BodyIsActive(b, TRUE),
                                      images |-> 0]),
                                 !.nextId.product = id + 1]
       IN IF b.inv = NoQuantity THEN Answer(201, created)
          ELSE IF InventorySkuTaken(st, b.sku, Null) THEN Answer(400, st)
          ELSE Answer(201, WithNewInventory(created, id, Null, b.sku, b.inv))

\* updateProduct up to product.update: 404, 403, 400, or 0
updateProductLookups(st, cats, uid, role, id, b) ==
  IF id \notin DOMAIN st.products THEN 404
  ELSE IF role # "admin" /\ st.products[id].userId # uid THEN 403
  ELSE IF b.categoryId # Null /\ b.categoryId # st.products[id].categoryId
          /\ b.categoryId \notin cats THEN 400
  ELSE IF b.sku # Undefined /\ b.sku # st.products[id].sku
          /\ SkuUsedByProduct(st, b.sku, id) THEN 400
  ELSE 0

\* updateProduct from product.update on, for a body that names a sku
updateProductFromUpdate(st, cats, id, b) ==
  IF id \notin DOMAIN st.products THEN Answer(200, st)
  ELSE IF SkuUsedByProduct(st, b.sku, id) THEN Answer(errorHandler(UniqueConstraintError), st)
  ELSE ApplyProductUpdate(st, cats, id, b)

\* ------------------------------------------------------------------------
\* Inventory and report handlers (controllers/inventoryController,
\* controllers/reportController)
\* ------------------------------------------------------------------------
\* exports.getInventoryById
getInventoryById(st, id) ==
  IF id \notin DOMAIN st.inventory THEN Answer(404, st) ELSE Answer(200, st)

\* exports.updateInventory
updateInventory(st, id, b) ==
  IF id \notin DOMAIN st.inventory THEN Answer(404, st)
  ELSE IF b.quantity = NoQuantity THEN Answer(200, st)
  ELSE Answer(200, [st EXCEPT !.inventory[id].quantity = b.quantity])

\* entries of the `updates` array of PATCH /api/inventory/update-quantity
MaxBatch == 1
UpdateEntries == [id : 0..MaxInventoryId, quantity : 0..MaxQuantity]
Batches == UNION {[1..n -> UpdateEntries] : n \in 0..MaxBatch}

\* the for loop of updateInventoryQuantity over updates[k..]
RECURSIVE ApplyUpdates(_, _, _)
ApplyUpdates(st, updates, k) ==
  IF k > Len(updates) THEN st
  ELSE LET u == updates[k]
       IN IF u.id = 0 THEN ApplyUpdates(st, updates, k + 1)
          ELSE IF u.id \notin DOMAIN st.inventory THEN ApplyUpdates(st, updates, k + 1)
          ELSE ApplyUpdates([st EXCEPT !.inventory[u.id].quantity = u.quantity],
                            updates, k + 1)

\* exports.updateInventoryQuantity
updateInventoryQuantity(st, updates) ==
  IF Len(updates) = 0 THEN Answer(400, st)
  ELSE Answer(200, ApplyUpdates(st, updates, 1))

\* the results array of updateInventoryQuantity over updates[k..]: an entry
\* without id is skipped, a missing record is reported with success false,
\* an updated one with the quantity it had in the transaction and the new one
RECURSIVE BatchResults(_, _, _)
BatchResults(st, updates, k) ==
  IF k > Len(updates) THEN << >>
  ELSE LET u == updates[k]
       IN IF u.id = 0 THEN BatchResults(st, updates, k + 1)
          ELSE IF u.id \notin DOMAIN st.inventory
          THEN <<[id |-> u.id, success |-> FALSE, oldQuantity |-> NoQuantity,
                  newQuantity |-> NoQuantity]>>
                 \o BatchResults(st, updates, k + 1)
          ELSE <<[id |-> u.id, success |-> TRUE,
                  oldQuantity |-> st.inventory[u.id].quantity,
                  newQuantity |-> u.quantity]>>
                 \o BatchResults([st EXCEPT !.inventory[u.id].quantity = u.quantity],
                                 updates, k + 1)

\* the first `n` entries of updates
Prefix(updates, n) == SubSeq(updates, 1, n)

\* a throw that leaves the writes of the entries before it in the table
UpdateInventoryQuantityNoRollback(st, updates, k, err) ==
  Answer(errorHandler(err), ApplyUpdates(st, Prefix(updates, k - 1), 1))

\* updateInventoryQuantity when the lookup or the update of entry k, or the
\* commit (k = Len(updates) + 1), throws err: the catch block rolls the
\* transaction back and hands err to the error handler
updateInventoryQuantityThrows(st, updates, k, err) ==
  Answer(errorHandler(err), st)

\* ------------------------------------------------------------------------
\* Category handlers (controllers/categoryController)
\* ------------------------------------------------------------------------
CategoryNames == {"c-a", "c-b"}

\* parentId: Null when the body has none
InvalidCategoryBody == [valid |-> FALSE, name |-> Undefined, parentId |-> Null]
CategoryBodies ==
  {InvalidCategoryBody} \cup
  [valid : {TRUE}, name : CategoryNames \cup {Undefined}, parentId : 0..MaxCategoryId]
\* POST /api/categories: name is required
ValidCreateCategory(b) == b.valid /\ b.name # Undefined
\* PUT /api/categories/:id: every field is optional
ValidUpdateCategory(b) == b.valid

\* the unique index on (name, parentId); rows with a NULL parentId never
\* collide
CategoryNameTaken(st, name, parent, self) ==
  /\ parent # Null
  /\ \E c \in DOMAIN st.categories :
        c # self /\ st.categories[c].name = name /\ st.categories[c].parentId = parent

SubcategoriesOf(st, id) == {c \in DOMAIN st.categories : st.categories[c].parentId = id}
ProductsOfCategory(st, id) == {p \in DOMAIN st.products : st.products[p].categoryId = id}

\* exports.getCategoryById
getCategoryById(st, id) ==
  IF id \notin DOMAIN st.categories THEN Answer(404, st) ELSE Answer(200, st)

\* exports.createCategory
createCategory(st, b) ==
  IF b.parentId # Null /\ b.parentId \notin DOMAIN st.categories THEN Answer(400, st)
  ELSE IF CategoryNameTaken(st, b.name, b.parentId, Null) THEN Answer(400, st)
  ELSE Answer(201, [st EXCEPT !.categories = Insert(st.categories, st.nextId.category,
                                                   [name |-> b.name, parentId |-> b.parentId]),
                              !.nextId.category = st.nextId.category + 1])

\* exports.updateCategory
updateCategory(st, id, b) ==
  IF id \notin DOMAIN st.categories THEN Answer(404, st)
  ELSE LET category == st.categories[id]
           newName == IF b.name # Undefined THEN b.name ELSE category.name
           newParent == IF b.parentId # Null THEN b.parentId ELSE category.parentId
       IN IF b.parentId # Null /\ b.parentId # category.parentId /\ b.parentId = id
          THEN Answer(400, st)
          ELSE IF b.parentId # Null /\ b.parentId # category.parentId
                    /\ b.parentId \notin DOMAIN st.categories
          THEN Answer(400, st)
          ELSE IF CategoryNameTaken(st, newName, newParent, id) THEN Answer(400, st)
          ELSE Answer(200, [st EXCEPT !.categories[id] = [name |-> newName,
                                                          parentId |-> newParent]])

DeleteCategoryIgnoringSubcategories(st, id) ==
  IF id \notin DOMAIN st.categories THEN Answer(404, st)
  ELSE IF ProductsOfCategory(st, id) # {} THEN Answer(500, st)
  ELSE Answer(200, [st EXCEPT !.categories =
                      [c \in DOMAIN st.categories \ {id} |->
                         IF st.categories[c].parentId = id
                         THEN [st.categories[c] EXCEPT !.parentId = Null]
                         ELSE st.categories[c]]])

\* exports.deleteCategory.  category.destroy() of a category that products
\* refer to fails on the foreign key of products.categoryId (NOT NULL,
\* belongsTo declared first: ON DELETE NO ACTION); the catch block rolls back
\* and the error handler answers 500.
deleteCategory(st, id) ==
  IF id \notin DOMAIN st.categories THEN Answer(404, st)
  ELSE IF SubcategoriesOf(st, id) # {} THEN Answer(400, st)
  ELSE IF ProductsOfCategory(st, id) # {} THEN Answer(500, st)
  ELSE Answer(200, [st EXCEPT !.categories = Remove(st.categories, {id})])

\* ------------------------------------------------------------------------
\* Routes
\* ------------------------------------------------------------------------
ProductRoutes == {"POST /api/products", "PUT /api/products/:id", "DELETE /api/products/:id"}
VariantRoutes == {"POST /api/products/:id/variants",
                  "PUT /api/products/:productId/variants/:id",
                  "DELETE /api/products/:productId/variants/:id"}
InventoryListRoutes == {"GET /api/inventory", "GET /api/inventory/low-stock",
                        "GET /api/inventory/out-of-stock"}
InventoryRoutes == InventoryListRoutes \cup
                   {"GET /api/inventory/:id", "PUT /api/inventory/:id",
                    "PATCH /api/inventory/update-quantity"}
CategoryListRoutes == {"GET /api/categories", "GET /api/categories/tree"}
CategoryWriteRoutes == {"POST /api/categories", "PUT /api/categories/:id",
                        "DELETE /api/categories/:id"}
ReportRoutes == {"GET /api/reports/inventory-status",
                 "GET /api/reports/category-distribution",
                 "GET /api/reports/low-stock-alert"}

\* the resource and action a route is about
RouteResource(route) ==
  IF route \in ProductRoutes THEN "products"
  ELSE IF route \in VariantRoutes THEN "variants"
  ELSE IF route \in InventoryRoutes THEN "inventory"
  ELSE IF route \in CategoryListRoutes \cup CategoryWriteRoutes
                     \cup {"GET /api/categories/:id"} THEN "categories"
  ELSE "reports"
RouteAction(route) ==
  IF route \in {"POST /api/products", "POST /api/products/:id/variants",
                "POST /api/categories"} THEN "create"
  ELSE IF route \in {"PUT /api/products/:id", "PUT /api/products/:productId/variants/:id",
                     "PUT /api/inventory/:id", "PATCH /api/inventory/update-quantity",
                     "PUT /api/categories/:id"}
  THEN "update"
  ELSE IF route \in {"DELETE /api/products/:id", "DELETE /api/products/:productId/variants/:id",
                     "DELETE /api/categories/:id"}
  THEN "delete"
  ELSE "view"

GateValidatingFirst(resource, action, auth, valid) ==
  LET a == protect(auth, users)
  IN IF a.status # 0 THEN [stage |-> "protect", status |-> a.status, user |-> Null]
     ELSE IF ~valid THEN [stage |-> "validate", status |-> 400, user |-> a.user]
     ELSE IF checkPermission(resource, action, TRUE, users[a.user].role) = "403"
     THEN [stage |-> "permission", status |-> 403, user |-> a.user]
     ELSE [stage |-> "handler", status |-> 0, user |-> a.user]

\* The middleware a product or variant route runs before its handler:
\* protect, checkPermission(resource, action), the validators and validate.
\* status 0: the handler runs, with req.user the row of `user`.
Gate(resource, action, auth, valid) ==
  LET a == protect(auth, users)
  IN IF a.status # 0 THEN [stage |-> "protect", status |-> a.status, user |-> Null]
     ELSE IF checkPermission(resource, action, TRUE, users[a.user].role) = "403"
     THEN [stage |-> "permission", status |-> 403, user |-> a.user]
     ELSE IF checkPermission(resource, action, TRUE, users[a.user].role) = "TypeError"
     THEN [stage |-> "permission", status |-> 500, user |-> a.user]
     ELSE IF ~valid THEN [stage |-> "validate", status |-> 400, user |-> a.user]
     ELSE [stage |-> "handler", status |-> 0, user |-> a.user]

\* The middleware an inventory route runs before its handler: the
\* validators and validate.  req.user is never set.
OpenGate(auth, valid) ==
  IF ~valid THEN [stage |-> "validate", status |-> 400, user |-> Null]
  ELSE [stage |-> "handler", status |-> 0, user |-> Null]

NoBatch == << >>

\* the answer is sent: the store is as the handler left it, and `last`
\* describes the request, its answer and the store the request found
\* x carries what only some routes have: cid, the category id of the route;
\* claimed, the userId field of the body; err, the error a store lookup threw;
\* asked, the role field of a registration body; sku, the sku of the body;
\* results, the data array of a batch answer; msg, the message of an error body
RespondCore(maxPid, route, auth, g, ans, pid, vid, iid, valid, batch, x) ==
  /\ last.route = "none"
  /\ probe.fn = "none"
  /\ ans.st.nextId.product <= maxPid + 1
  /\ ans.st.nextId.variant <= MaxVariantId + 1
  /\ ans.st.nextId.inventory <= MaxInventoryId + 1
  /\ ans.st.nextId.category <= MaxCategoryId + 1
  /\ products' = ans.st.products
  /\ variants' = ans.st.variants
  /\ inventory' = ans.st.inventory
  /\ categories' = ans.st.categories
  /\ nextId' = ans.st.nextId
  /\ last' = [route |-> route, auth |-> auth, user |-> g.user, stage |-> g.stage,
              status |-> ans.status, pid |-> pid, vid |-> vid, iid |-> iid,
              valid |-> valid, batch |-> batch, cid |-> x.cid, claimed |-> x.claimed,
              err |-> x.err, asked |-> x.asked, sku |-> x.sku, results |-> x.results,
              msg |-> x.msg, preUsers |-> users, token |-> NoAuth,
              pre |-> Store]
  /\ UNCHANGED <<users, probe, now>>

RespondWith(route, auth, g, ans, pid, vid, iid, valid, batch, x) ==
  /\ RespondCore(MaxProductId, route, auth, g, ans, pid, vid, iid, valid, batch, x)
  /\ UNCHANGED pending

NoError == "none"
NoExtra == [cid |-> Null, claimed |-> Null, err |-> NoError, asked |-> Null, sku |-> Null,
            results |-> << >>, msg |-> ""]

Respond(route, auth, g, ans, pid, vid, iid, valid, batch) ==
  RespondWith(route, auth, g, ans, pid, vid, iid, valid, batch, NoExtra)

RoleOf(uid) == users[uid].role

\* router.post('/', protect, checkPermission('products', 'create'), ..., createProduct)
PostProduct(auth, b) ==
  LET g == Gate("products", "create", auth, ValidCreateProduct(b))
      ans == IF g.status # 0 THEN Answer(g.status, Store)
             ELSE createProduct(Store, DOMAIN categories, g.user, b)
  IN RespondWith("POST /api/products", auth, g, ans, Null, Null, Null,
                 ValidCreateProduct(b), NoBatch, [NoExtra EXCEPT !.claimed = b.userId])

\* router.put('/:id', protect, checkPermission('products', 'update'), ..., updateProduct)
PutProduct(auth, id, b) ==
  LET g == Gate("products", "update", auth, ValidUpdateProduct(b))
      ans == IF g.status # 0 THEN Answer(g.status, Store)
             ELSE updateProduct(Store, DOMAIN categories, g.user, RoleOf(g.user), id, b)
  IN RespondWith("PUT /api/products/:id", auth, g, ans, id, Null, Null,
                 ValidUpdateProduct(b), NoBatch, [NoExtra EXCEPT !.claimed = b.userId])

\* router.delete('/:id', protect, checkPermission('products', 'delete'), deleteProduct)
DeleteProduct(auth, id) ==
  LET g == Gate("products", "delete", auth, TRUE)
      ans == IF g.status # 0 THEN Answer(g.status, Store)
             ELSE deleteProduct(Store, g.user, RoleOf(g.user), id)
  IN Respond("DELETE /api/products/:id", auth, g, ans, id, Null, Null, TRUE, NoBatch)

\* router.post('/:id/variants', protect, checkPermission('variants', 'create'), ...)
PostVariant(auth, pid, b) ==
  LET g == Gate("variants", "create", auth, ValidCreateVariant(b))
      ans == IF g.status # 0 THEN Answer(g.status, Store)
             ELSE createProductVariant(Store, g.user, RoleOf(g.user), pid, b)
  IN Respond("POST /api/products/:id/variants", auth, g, ans, pid, Null, Null,
             ValidCreateVariant(b), NoBatch)

\* router.put('/:productId/variants/:id', protect, checkPermission('variants', 'update'), ...)
PutVariant(auth, pid, id, b) ==
  LET g == Gate("variants", "update", auth, ValidUpdateVariant(b))
      ans == IF g.status # 0 THEN Answer(g.status, Store)
             ELSE updateProductVariant(Store, g.user, RoleOf(g.user), pid, id, b)
  IN Respond("PUT /api/products/:productId/variants/:id", auth, g, ans, pid, id, Null,
             ValidUpdateVariant(b), NoBatch)

\* router.delete('/:productId/variants/:id', protect, checkPermission('variants', 'delete'), ...)
DeleteVariant(auth, pid, id) ==
  LET g == Gate("variants", "delete", auth, TRUE)
      ans == IF g.status # 0 THEN Answer(g.status, Store)
             ELSE deleteProductVariant(Store, g.user, RoleOf(g.user), pid, id)
  IN Respond("DELETE /api/products/:productId/variants/:id", auth, g, ans, pid, id, Null,
             TRUE, NoBatch)

\* router.get('/', getAllInventory), router.get('/low-stock', getLowStockItems),
\* router.get('/out-of-stock', getOutOfStockItems)
GetInventoryList(auth, route) ==
  Respond(route, auth, OpenGate(auth, TRUE), Answer(200, Store), Null, Null, Null,
          TRUE, NoBatch)

\* router.get('/:id', getInventoryById)
GetInventory(auth, id) ==
  Respond("GET /api/inventory/:id", auth, OpenGate(auth, TRUE), getInventoryById(Store, id),
          Null, Null, id, TRUE, NoBatch)

\* router.put('/:id', [...], validate, updateInventory)
PutInventory(auth, id, b) ==
  LET g == OpenGate(auth, ValidUpdateInventory(b))
      ans == IF g.status # 0 THEN Answer(g.status, Store) ELSE updateInventory(Store, id, b)
  IN Respond("PUT /api/inventory/:id", auth, g, ans, Null, Null, id,
             ValidUpdateInventory(b), NoBatch)

\* router.patch('/update-quantity', [...], validate, updateInventoryQuantity)
PatchInventoryQuantity(auth, updates) ==
  LET ans == updateInventoryQuantity(Store, updates)
      results == IF ans.status = 200 THEN BatchResults(Store, updates, 1) ELSE << >>
  IN RespondWith("PATCH /api/inventory/update-quantity", auth, OpenGate(auth, TRUE),
                 ans, Null, Null, Null, TRUE, updates,
                 [NoExtra EXCEPT !.results = results])

\* the same route when step k of the handler throws err
PatchInventoryQuantityThrows(auth, updates, k, err) ==
  /\ k \in 1..(Len(updates) + 1)
  /\ RespondWith("PATCH /api/inventory/update-quantity", auth, OpenGate(auth, TRUE),
                 updateInventoryQuantityThrows(Store, updates, k, err),
                 Null, Null, Null, TRUE, updates, [NoExtra EXCEPT !.err = err])

\* router.get('/inventory-status', ...), router.get('/category-distribution', ...),
\* router.get('/low-stock-alert', ...)
GetReport(auth, route) ==
  Respond(route, auth, OpenGate(auth, TRUE), Answer(200, Store), Null, Null, Null,
          TRUE, NoBatch)

\* The category router with protect and checkPermission('categories', ...)
\* on its writing routes.
WithCategory(cid) == [NoExtra EXCEPT !.cid = cid]

PostCategory(auth, b) ==
  LET g == Gate("categories", "create", auth, ValidCreateCategory(b))
      ans == IF g.status # 0 THEN Answer(g.status, Store) ELSE createCategory(Store, b)
  IN RespondWith("POST /api/categories", auth, g, ans, Null, Null, Null,
                 ValidCreateCategory(b), NoBatch, WithCategory(Null))

PutCategory(auth, id, b) ==
  LET g == Gate("categories", "update", auth, ValidUpdateCategory(b))
      ans == IF g.status # 0 THEN Answer(g.status, Store) ELSE updateCategory(Store, id, b)
  IN RespondWith("PUT /api/categories/:id", auth, g, ans, Null, Null, Null,
                 ValidUpdateCategory(b), NoBatch, WithCategory(id))

DeleteCategory(auth, id) ==
  LET g == Gate("categories", "delete", auth, TRUE)
      ans == IF g.status # 0 THEN Answer(g.status, Store) ELSE deleteCategory(Store, id)
  IN RespondWith("DELETE /api/categories/:id", auth, g, ans, Null, Null, Null,
                 TRUE, NoBatch, WithCategory(id))

\* The category router that mounts validators and handlers only.
PostCategoryOpen(auth, b) ==
  LET g == OpenGate(auth, ValidCreateCategory(b))
      ans == IF g.status # 0 THEN Answer(g.status, Store) ELSE createCategory(Store, b)
  IN RespondWith("POST /api/categories", auth, g, ans, Null, Null, Null,
                 ValidCreateCategory(b), NoBatch, WithCategory(Null))

PutCategoryOpen(auth, id, b) ==
  LET g == OpenGate(auth, ValidUpdateCategory(b))
      ans == IF g.status # 0 THEN Answer(g.status, Store) ELSE updateCategory(Store, id, b)
  IN RespondWith("PUT /api/categories/:id", auth, g, ans, Null, Null, Null,
                 ValidUpdateCategory(b), NoBatch, WithCategory(id))

DeleteCategoryOpen(auth, id) ==
  RespondWith("DELETE /api/categories/:id", auth, OpenGate(auth, TRUE),
              deleteCategory(Store, id), Null, Null, Null, TRUE, NoBatch, WithCategory(id))

\* router.get('/', getAllCategories), router.get('/tree', getCategoryTree):
\* the same in both routers
GetCategories(auth, route) ==
  RespondWith(route, auth, OpenGate(auth, TRUE), Answer(200, Store), Null, Null, Null,
              TRUE, NoBatch, WithCategory(Null))

\* router.get('/:id', getCategoryById): the same in both routers
GetCategory(auth, id) ==
  RespondWith("GET /api/categories/:id", auth, OpenGate(auth, TRUE),
              getCategoryById(Store, id), Null, Null, Null, TRUE, NoBatch, WithCategory(id))

\* checkOwnership(Product) run for a request whose req.user is the row of uid
CheckOwnershipCall(uid, id) ==
  LET status == checkOwnership(Store, TRUE, uid, RoleOf(uid), id)
  IN Respond("checkOwnership(Product)", ValidToken(uid),
             [stage |-> "ownership", status |-> status, user |-> uid],
             Answer(status, Store), id, Null, Null, TRUE, NoBatch)

\* a product or variant route whose handler looks the product up while the
\* store rejects the query with err
LookupThrows(route, auth, valid, pid, vid, err) ==
  LET g == Gate(RouteResource(route), RouteAction(route), auth, valid)
      ans == IF g.status # 0 THEN Answer(g.status, Store) ELSE handlerLookupThrows(Store, err)
  IN RespondWith(route, auth, g, ans, pid, vid, Null, valid, NoBatch,
                 [NoExtra EXCEPT !.err = err])

\* checkOwnership(Product) run for the row of uid while the store rejects
\* the query with err
CheckOwnershipLookupThrows(uid, id, err) ==
  LET status == checkOwnershipLookupThrows(TRUE, RoleOf(uid), id, err)
  IN RespondWith("checkOwnership(Product)", ValidToken(uid),
                 [stage |-> "ownership", status |-> status, user |-> uid],
                 Answer(status, Store), id, Null, Null, TRUE, NoBatch,
                 [NoExtra EXCEPT !.err = err])

\* the database after setup: the registered accounts and one root category
InitialCategories == [c \in {1} |-> [name |-> "c-a", parentId |-> Null]]
InitialNextId == [product |-> 1, variant |-> 1, inventory |-> 1, category |-> 2, user |-> 5]

NoRequest ==
  [route |-> "none", auth |-> NoAuth, user |-> Null, stage |-> "none", status |-> 0,
   pid |-> Null, vid |-> Null, iid |-> Null, valid |-> TRUE, batch |-> NoBatch,
   cid |-> Null, claimed |-> Null, err |-> NoError, asked |-> Null, sku |-> Null, results |-> << >>, msg |-> "",
   preUsers |-> << >>, token |-> NoAuth,
   pre |-> [products |-> << >>, variants |-> << >>, inventory |-> << >>,
            categories |-> InitialCategories, nextId |-> InitialNextId]]

\* router.get('/:id', productController.getProductById): no protect, so
\* req.user is never set
GetProduct(auth, id) ==
  LET g == OpenGate(auth, TRUE)
      ans == getProductById(Store, g.user # Null, g.user, NoRole, id)
  IN RespondWith("GET /api/products/:id", auth, g, ans, id, Null, Null, TRUE, NoBatch,
                 [NoExtra EXCEPT !.msg = ans.msg])

\* router.get('/:id/variants', productController.getProductVariants): no
\* protect, so req.user is never set
GetProductVariants(auth, id) ==
  LET g == OpenGate(auth, TRUE)
      ans == getProductVariants(Store, g.user # Null, g.user, NoRole, id)
  IN RespondWith("GET /api/products/:id/variants", auth, g, ans, id, Null, Null, TRUE,
                 NoBatch, [NoExtra EXCEPT !.msg = ans.msg])

\* ------------------------------------------------------------------------
\* Product creations and updates that interleave
\* ------------------------------------------------------------------------
SkuProductIds == 1..MaxSkuProducts
SkuCreateBodies == PlainProductBodies
SkuUpdateBodies == [valid : {TRUE}, sku : ProductSkus, categoryId : {Null},
                    inv : {NoQuantity}, userId : {Null}]

FreeSlot == CHOOSE n \in 1..MaxPending : \A r \in pending : r.n # n

Suspend(kind, auth, uid, id, b) ==
  /\ last.route = "none"
  /\ probe.fn = "none"
  /\ Cardinality(pending) < MaxPending
  /\ pending' = pending \cup {[n |-> FreeSlot, kind |-> kind, auth |-> auth, uid |-> uid,
                                id |-> id, b |-> b]}
  /\ UNCHANGED <<users, categories, products, variants, inventory, nextId, last, probe, now>>

\* POST /api/products up to Product.create: the request is answered by the
\* middleware or by one of the handler's lookups, or the handler has passed
\* its SKU lookup and is about to create the product
BeginPostProduct(auth, b) ==
  LET g == Gate("products", "create", auth, ValidCreateProduct(b))
      early == IF g.status # 0 THEN g.status
               ELSE createProductLookups(Store, DOMAIN categories, b)
  IN IF early # 0
     THEN /\ RespondCore(MaxSkuProducts, "POST /api/products", auth, g, Answer(early, Store),
                         Null, Null, Null, ValidCreateProduct(b), NoBatch,
                         [NoExtra EXCEPT !.claimed = b.userId, !.sku = b.sku])
          /\ UNCHANGED pending
     ELSE Suspend("create", auth, g.user, Null, b)

\* Product.create, Inventory.create, commit and the answer
CommitPostProduct(r) ==
  LET g == [stage |-> "handler", status |-> 0, user |-> r.uid]
      ans == createProductFromCreate(Store, DOMAIN categories, r.uid, r.b)
      err == IF SkuUsedByProduct(Store, r.b.sku, Null) THEN UniqueConstraintError ELSE NoError
  IN /\ r \in pending
     /\ r.kind = "create"
     /\ RespondCore(MaxSkuProducts, "POST /api/products", r.auth, g, ans, Null, Null, Null,
                    TRUE, NoBatch,
                    [NoExtra EXCEPT !.claimed = r.b.userId, !.sku = r.b.sku, !.err = err])
     /\ pending' = pending \ {r}

\* PUT /api/products/:id up to product.update
BeginPutProduct(auth, id, b) ==
  LET g == Gate("products", "update", auth, ValidUpdateProduct(b))
      early == IF g.status # 0 THEN g.status
               ELSE updateProductLookups(Store, DOMAIN categories, g.user, RoleOf(g.user),
                                         id, b)
  IN IF early # 0
     THEN /\ RespondCore(MaxSkuProducts, "PUT /api/products/:id", auth, g,
                         Answer(early, Store), id, Null, Null, ValidUpdateProduct(b),
                         NoBatch, [NoExtra EXCEPT !.sku = b.sku])
          /\ UNCHANGED pending
     ELSE Suspend("update", auth, g.user, id, b)

\* product.update, commit and the answer
CommitPutProduct(r) ==
  LET g == [stage |-> "handler", status |-> 0, user |-> r.uid]
      ans == updateProductFromUpdate(Store, DOMAIN categories, r.id, r.b)
      err == IF SkuUsedByProduct(Store, r.b.sku, r.id) THEN UniqueConstraintError
             ELSE NoError
  IN /\ r \in pending
     /\ r.kind = "update"
     /\ RespondCore(MaxSkuProducts, "PUT /api/products/:id", r.auth, g, ans, r.id, Null,
                    Null, TRUE, NoBatch, [NoExtra EXCEPT !.sku = r.b.sku, !.err = err])
     /\ pending' = pending \ {r}

\* ------------------------------------------------------------------------
\* The variant routes over a catalog of up to MaxSkuProducts products
\* ------------------------------------------------------------------------
RespondAmong(route, auth, g, ans, pid, vid, valid) ==
  /\ RespondCore(MaxSkuProducts, route, auth, g, ans, pid, vid, Null, valid, NoBatch, NoExtra)
  /\ UNCHANGED pending

PostProductAmong(auth, b) ==
  LET g == Gate("products", "create", auth, ValidCreateProduct(b))
      ans == IF g.status # 0 THEN Answer(g.status, Store)
             ELSE createProduct(Store, DOMAIN categories, g.user, b)
  IN RespondAmong("POST /api/products", auth, g, ans, Null, Null, ValidCreateProduct(b))

PostVariantAmong(auth, pid, b) ==
  LET g == Gate("variants", "create", auth, ValidCreateVariant(b))
      ans == IF g.status # 0 THEN Answer(g.status, Store)
             ELSE createProductVariant(Store, g.user, RoleOf(g.user), pid, b)
  IN RespondAmong("POST /api/products/:id/variants", auth, g, ans, pid, Null,
                  ValidCreateVariant(b))

PutVariantAmong(auth, pid, id, b) ==
  LET g == Gate("variants", "update", auth, ValidUpdateVariant(b))
      ans == IF g.status # 0 THEN Answer(g.status, Store)
             ELSE updateProductVariant(Store, g.user, RoleOf(g.user), pid, id, b)
  IN RespondAmong("PUT /api/products/:productId/variants/:id", auth, g, ans, pid, id,
                  ValidUpdateVariant(b))

DeleteVariantAmong(auth, pid, id) ==
  LET g == Gate("variants", "delete", auth, TRUE)
      ans == IF g.status # 0 THEN Answer(g.status, Store)
             ELSE deleteProductVariant(Store, g.user, RoleOf(g.user), pid, id)
  IN RespondAmong("DELETE /api/products/:productId/variants/:id", auth, g, ans, pid, id,
                  TRUE)

\* ------------------------------------------------------------------------
\* Images (controllers/imageController, routes/imageRoutes)
\* ------------------------------------------------------------------------
\* imageUrls is kept as its length.  files: the number of files uploaded.
ImageFiles == 0..1
ImageIndexes == 0..MaxImages
ImageRoles == {"admin", "manager", "editor"}

\* restrictTo(...roles): 403 unless req.user.role is one of roles
restrictTo(roles, role) == IF role \notin roles THEN 403 ELSE 0

\* protect, restrictTo('admin', 'manager', 'editor'), then the handler
ImageGate(auth) ==
  LET a == protect(auth, users)
  IN IF a.status # 0 THEN [stage |-> "protect", status |-> a.status, user |-> Null]
     ELSE IF restrictTo(ImageRoles, users[a.user].role) = 403
     THEN [stage |-> "restrictTo", status |-> 403, user |-> a.user]
     ELSE [stage |-> "handler", status |-> 0, user |-> a.user]

uploadProductImages(st, productId, files) ==
  IF productId \notin DOMAIN st.products THEN Answer(404, st)
  ELSE IF files = 0 THEN Answer(400, st)
  ELSE Answer(200, [st EXCEPT !.products[productId].images = @ + files])

uploadVariantImages(st, variantId, files) ==
  IF variantId \notin DOMAIN st.variants THEN Answer(404, st)
  ELSE IF files = 0 THEN Answer(400, st)
  ELSE Answer(200, [st EXCEPT !.variants[variantId].images = @ + files])

deleteProductImage(st, productId, index) ==
  IF productId \notin DOMAIN st.products THEN Answer(404, st)
  ELSE IF index < 0 \/ index >= st.products[productId].images THEN Answer(400, st)
  ELSE Answer(200, [st EXCEPT !.products[productId].images = @ - 1])

ImageRoutes == {"POST /api/images/products/:productId",
                "POST /api/images/variants/:variantId",
                "DELETE /api/images/products/:productId/:imageIndex"}

\* router.post('/products/:productId', protect, restrictTo(...), upload, uploadProductImages)
PostProductImages(auth, pid, files) ==
  LET g == ImageGate(auth)
      ans == IF g.status # 0 THEN Answer(g.status, Store)
             ELSE uploadProductImages(Store, pid, files)
  IN /\ \A p \in DOMAIN ans.st.products : ans.st.products[p].images <= MaxImages
     /\ Respond("POST /api/images/products/:productId", auth, g, ans, pid, Null, Null,
                TRUE, NoBatch)

\* router.post('/variants/:variantId', protect, restrictTo(...), upload, uploadVariantImages)
PostVariantImages(auth, vid, files) ==
  LET g == ImageGate(auth)
      ans == IF g.status # 0 THEN Answer(g.status, Store)
             ELSE uploadVariantImages(Store, vid, files)
  IN /\ \A v \in DOMAIN ans.st.variants : ans.st.variants[v].images <= MaxImages
     /\ Respond("POST /api/images/variants/:variantId", auth, g, ans, Null, vid, Null,
                TRUE, NoBatch)

\* router.delete('/products/:productId/:imageIndex', protect, restrictTo(...), deleteProductImage)
DeleteProductImage(auth, pid, index) ==
  LET g == ImageGate(auth)
      ans == IF g.status # 0 THEN Answer(g.status, Store)
             ELSE deleteProductImage(Store, pid, index)
  IN Respond("DELETE /api/images/products/:productId/:imageIndex", auth, g, ans, pid,
             Null, Null, TRUE, NoBatch)

\* ------------------------------------------------------------------------
\* Registration (controllers/authController, routes/authRoutes)
\* ------------------------------------------------------------------------
\* valid: email, password, firstName and lastName pass their rules and role,
\* when present, is one of admin, seller, buyer.  role is Undefined when the
\* body has none.
RegisterEmails == {"admin@x", "new-a@x", "new-b@x"}
InvalidRegisterBody == [valid |-> FALSE, email |-> "new-a@x", role |-> "admin"]
RegisterBodies ==
  [valid : {TRUE}, email : RegisterEmails, role : Roles \cup {Undefined}]
    \cup {InvalidRegisterBody}

\* role: { type: ENUM('admin', 'seller', 'buyer'), defaultValue: 'buyer' }
UserRoleDefault(role) == IF role = Undefined THEN "buyer" ELSE role

\* register(req, res, next) against the users table `us`: 400 when the
\* email is registered; otherwise userRole is computed from req.user and the
\* role of the body, and User.create is called with the role of the body
register(us, nid, hasUser, reqRole, b) ==
  IF \E u \in DOMAIN us : us[u].email = b.email
    THEN [status |-> 400, users |-> us, nextId |-> nid]
  ELSE
    LET validRoles == {"admin", "seller", "buyer"}
        userRole ==
          IF b.role # Undefined /\ b.role \in validRoles
            THEN IF b.role = "admin"
                   THEN IF hasUser /\ reqRole = "admin" THEN "admin" ELSE "buyer"
                   ELSE b.role
            ELSE "buyer"
        row == [role |-> UserRoleDefault(b.role), isActive |-> TRUE, email |-> b.email,
                password |-> bcryptHash(InitialPassword), lastLogin |-> Null,
                passwordResetToken |-> NoHash, passwordResetExpires |-> Null]
    IN [status |-> 201, users |-> Insert(us, nid.user, row),
        nextId |-> [nid EXCEPT !.user = @ + 1]]

\* router.post('/register', [validators], validate, authController.register):
\* protect is not mounted, so req.user is never set whatever the request carries
Register(auth, b) ==
  LET g == OpenGate(auth, b.valid)
      r == IF g.status # 0 THEN [status |-> g.status, users |-> users, nextId |-> nextId]
           ELSE register(users, nextId, g.user # Null,
                         IF g.user = Null THEN NoRole ELSE users[g.user].role, b)
  IN /\ last.route = "none"
     /\ probe.fn = "none"
     /\ r.nextId.user <= InitialNextId.user + MaxRegistered
     /\ users' = r.users
     /\ nextId' = r.nextId
     /\ last' = [NoRequest EXCEPT !.route = "POST /api/auth/register", !.auth = auth,
                                  !.user = g.user, !.stage = g.stage, !.status = r.status,
                                  !.valid = b.valid, !.asked = b.role, !.pre = Store,
                                  !.preUsers = users]
     /\ UNCHANGED <<categories, products, variants, inventory, probe, pending, now>>

\* ------------------------------------------------------------------------
\* Login and password reset (controllers/authController, routes/authRoutes)
\* ------------------------------------------------------------------------
LoginEmails == {"s2@x", "buyer@x", "nobody@x"}
InvalidLoginBody == [valid |-> FALSE, email |-> "s2@x", password |-> InitialPassword]
LoginBodies == [valid : {TRUE}, email : LoginEmails, password : Passwords]
                 \cup {InvalidLoginBody}
\* crypto.randomBytes(32).toString('hex')
ResetTokens == {"t-a", "t-b"}
\* passwordResetExpires = Date.now() + 10 * 60 * 1000, in ticks of the clock
TokenLifetime == 1
ReferenceError == "ReferenceError"

UserByEmail(us, email) == {u \in DOMAIN us : us[u].email = email}

\* user.isPasswordMatch(password): bcrypt.compare(password, this.password)
isPasswordMatch(row, password) == bcryptHash(password) = row.password

\* a login that never looks at user.isActive
LoginIgnoringIsActive(us, t, b) ==
  LET found == UserByEmail(us, b.email)
  IN IF found = {} THEN [status |-> 401, users |-> us, token |-> NoAuth]
     ELSE LET u == CHOOSE x \in found : TRUE
          IN IF ~isPasswordMatch(us[u], b.password)
             THEN [status |-> 401, users |-> us, token |-> NoAuth]
             ELSE [status |-> 200, users |-> [us EXCEPT ![u].lastLogin = t],
                   token |-> ValidToken(u)]

\* exports.login at time t: the answer's status, the users table it leaves
\* and the token it sends (NoAuth: none)
login(us, t, b) ==
  LET found == UserByEmail(us, b.email)
  IN IF found = {} THEN [status |-> 401, users |-> us, token |-> NoAuth]
     ELSE LET u == CHOOSE x \in found : TRUE
          IN IF ~isPasswordMatch(us[u], b.password)
             THEN [status |-> 401, users |-> us, token |-> NoAuth]
             ELSE IF ~us[u].isActive
             THEN [status |-> 401, users |-> us, token |-> NoAuth]
             ELSE [status |-> 200, users |-> [us EXCEPT ![u].lastLogin = t],
                   token |-> ValidToken(u)]

\* exports.forgotPassword at time t, resetToken being the random token drawn
forgotPassword(us, t, email, resetToken) ==
  LET found == UserByEmail(us, email)
  IN IF found = {} THEN [status |-> 404, users |-> us]
     ELSE LET u == CHOOSE x \in found : TRUE
          IN [status |-> 200,
              users |-> [us EXCEPT ![u].passwordResetToken = sha256(resetToken),
                                   ![u].passwordResetExpires = t + TokenLifetime]]

\* exports.resetPassword: the where clause of its User.findOne reads Op.gt,
\* and the controller imports no Op: building the query throws a
\* ReferenceError, which the catch block hands to the error handler
resetPassword(us, t, token, password) ==
  IF password = Undefined THEN [status |-> 400, users |-> us]
  ELSE [status |-> errorHandler(ReferenceError), users |-> us]

\* the answer of an authentication route: users is as the handler left it
RespondAuth(route, valid, r, x) ==
  /\ last.route = "none"
  /\ probe.fn = "none"
  /\ users' = r.users
  /\ last' = [NoRequest EXCEPT !.route = route, !.stage = IF valid THEN "handler" ELSE "validate",
                               !.status = r.status, !.valid = valid, !.pre = Store,
                               !.preUsers = users, !.token = x.token, !.asked = x.asked,
                               !.sku = x.sku]
  /\ UNCHANGED <<categories, products, variants, inventory, nextId, probe, pending, now>>

\* router.post('/login', loginLimiter, [validators], validate, authController.login)
Login(b) ==
  LET r == IF ~b.valid THEN [status |-> 400, users |-> users, token |-> NoAuth]
           ELSE login(users, now, b)
  IN RespondAuth("POST /api/auth/login", b.valid, r,
                 [token |-> r.token, asked |-> b.email, sku |-> b.password])

\* router.post('/forgot-password', [validators], validate, authController.forgotPassword)
ForgotPassword(email, resetToken) ==
  RespondAuth("POST /api/auth/forgot-password", TRUE,
              forgotPassword(users, now, email, resetToken),
              [token |-> NoAuth, asked |-> email, sku |-> resetToken])

\* router.post('/reset-password/:token', [validators], validate, authController.resetPassword)
ResetPassword(token, password) ==
  RespondAuth("POST /api/auth/reset-password/:token", TRUE,
              resetPassword(users, now, token, password),
              [token |-> NoAuth, asked |-> password, sku |-> token])

\* time passes
Tick ==
  /\ last.route = "none"
  /\ probe.fn = "none"
  /\ now < MaxClock
  /\ now' = now + 1
  /\ UNCHANGED <<users, categories, products, variants, inventory, nextId, last, probe,
                 pending>>

\* ------------------------------------------------------------------------
\* Accounts change outside the catalog routes: a row's isActive is cleared
\* or set, a row is removed (only when no product refers to it)
\* ------------------------------------------------------------------------
SetUserActive(u, flag) ==
  /\ last.route = "none"
  /\ u \in DOMAIN users
  /\ users[u].isActive # flag
  /\ users' = [users EXCEPT ![u].isActive = flag]
  /\ UNCHANGED <<categories, products, variants, inventory, nextId, last, probe, pending, now>>

RemoveUser(u) ==
  /\ last.route = "none"
  /\ u \in DOMAIN users
  /\ \A p \in DOMAIN products : products[p].userId # u
  /\ users' = [x \in DOMAIN users \ {u} |-> users[x]]
  /\ UNCHANGED <<categories, products, variants, inventory, nextId, last, probe, pending, now>>

\* ------------------------------------------------------------------------
\* Direct calls of the permission functions
\* ------------------------------------------------------------------------
CallHasPermission(role, resource, action) ==
  /\ last.route = "none"
  /\ probe.fn = "none"
  /\ probe' = [fn |-> "hasPermission", hasUser |-> TRUE, role |-> role,
               resource |-> resource, action |-> action,
               result |-> hasPermission(role, resource, action)]
  /\ UNCHANGED <<users, categories, products, variants, inventory, nextId, last, pending, now>>

CallCheckPermission(hasUser, role, resource, action) ==
  /\ last.route = "none"
  /\ probe.fn = "none"
  /\ probe' = [fn |-> "checkPermission", hasUser |-> hasUser, role |-> role,
               resource |-> resource, action |-> action,
               result |-> checkPermission(resource, action, hasUser, role)]
  /\ UNCHANGED <<users, categories, products, variants, inventory, nextId, last, pending, now>>

\* ------------------------------------------------------------------------
\* Transactions: what each handler that opens a transaction does with it,
\* step by step, for every outcome of its awaited store calls
\* ------------------------------------------------------------------------
\* a lookup finds the row, finds nothing, or rejects; a write or the re-read
\* resolves or rejects
LookupOutcomes == {"found", "missing", "throws"}
CallOutcomes == {"ok", "throws"}
\* transaction.rollback() on a transaction that has already finished either
\* rejects or is carried out, depending on the store library
FinishedRollbackOutcomes == {"throws", "proceeds"}

\* the handler's run: commits and rollbacks carried out on its transaction,
\* responses sent, calls of next(error), and whether a rejection left the
\* handler uncaught
NoRun == [commits |-> 0, rollbacks |-> 0, responses |-> 0, nextCalls |-> 0, escaped |-> FALSE]
Commit(t) == [t EXCEPT !.commits = @ + 1]
Rollback(t) == [t EXCEPT !.rollbacks = @ + 1]
Send(t) == [t EXCEPT !.responses = @ + 1]
CallNext(t) == [t EXCEPT !.nextCalls = @ + 1]
Finished(t) == t.commits + t.rollbacks > 0

\* catch (error) { await transaction.rollback(); next(error); }
CatchRollback(t, lib) ==
  IF Finished(t) /\ lib = "throws" THEN [t EXCEPT !.escaped = TRUE]
  ELSE CallNext(Rollback(t))

\* catch (error) { if (transaction && !transaction.finished) await
\* transaction.rollback(); next(error); }
CatchRollbackIfActive(t) ==
  IF Finished(t) THEN CallNext(t) ELSE CallNext(Rollback(t))

\* exports.createProduct of controllers/productController.js
productControllerCreateProductRun(s) ==
  IF s.category = "throws" THEN CatchRollback(NoRun, s.lib)
  ELSE IF s.category = "missing" THEN Send(Rollback(NoRun))
  ELSE IF s.create = "throws" THEN CatchRollback(NoRun, s.lib)
  ELSE IF s.inventory /\ s.createInventory = "throws" THEN CatchRollback(NoRun, s.lib)
  ELSE IF s.reread = "throws" THEN CatchRollback(Commit(NoRun), s.lib)
  ELSE Send(Commit(NoRun))

\* exports.createProduct of the ownership-aware controller
createProductRun(s) ==
  IF s.category = "throws" THEN CatchRollbackIfActive(NoRun)
  ELSE IF s.category = "missing" THEN Send(Rollback(NoRun))
  ELSE IF s.existingSku = "throws" THEN CatchRollbackIfActive(NoRun)
  ELSE IF s.existingSku = "found" THEN Send(Rollback(NoRun))
  ELSE IF s.create = "throws" THEN CatchRollbackIfActive(NoRun)
  ELSE IF s.inventory /\ s.createInventory = "throws" THEN CatchRollbackIfActive(NoRun)
  ELSE IF s.reread = "throws" THEN CatchRollbackIfActive(Commit(NoRun))
  ELSE Send(Commit(NoRun))

\* exports.updateInventoryQuantity: `entries` are the outcomes of the
\* loop's findByPk and update for the entries it does not skip
RECURSIVE UpdateLoopThrows(_)
UpdateLoopThrows(entries) ==
  IF entries = << >> THEN FALSE
  ELSE LET e == Head(entries)
       IN IF e.find = "throws" THEN TRUE
          ELSE IF e.find = "found" /\ e.update = "throws" THEN TRUE
          ELSE UpdateLoopThrows(Tail(entries))

updateInventoryQuantityRun(s) ==
  IF s.empty THEN Send(Rollback(NoRun))
  ELSE IF UpdateLoopThrows(s.entries) THEN CatchRollback(NoRun, s.lib)
  ELSE Send(Commit(NoRun))

\* exports.deleteCategory
deleteCategoryRun(s) ==
  IF s.category = "throws" THEN CatchRollback(NoRun, s.lib)
  ELSE IF s.category = "missing" THEN Send(Rollback(NoRun))
  ELSE IF s.subcategories = "throws" THEN CatchRollback(NoRun, s.lib)
  ELSE IF s.subcategories = "found" THEN Send(Rollback(NoRun))
  ELSE IF s.destroy = "throws" THEN CatchRollback(NoRun, s.lib)
  ELSE Send(Commit(NoRun))

CreateProductScenarios ==
  [category : LookupOutcomes, existingSku : LookupOutcomes, create : CallOutcomes,
   inventory : BOOLEAN, createInventory : CallOutcomes, reread : CallOutcomes,
   lib : FinishedRollbackOutcomes]
LoopEntries == [find : LookupOutcomes, update : CallOutcomes]
UpdateInventoryScenarios ==
  [empty : BOOLEAN, entries : UNION {[1..n -> LoopEntries] : n \in 0..MaxBatch},
   lib : FinishedRollbackOutcomes]
DeleteCategoryScenarios ==
  [category : LookupOutcomes, subcategories : LookupOutcomes, destroy : CallOutcomes,
   lib : FinishedRollbackOutcomes]

RunHandler(handler, s, run) ==
  /\ last.route = "none"
  /\ probe.fn = "none"
  /\ probe' = [fn |-> "transaction", handler |-> handler, scenario |-> s, run |-> run]
  /\ UNCHANGED <<users, categories, products, variants, inventory, nextId, last, pending, now>>

RunProductControllerCreateProduct(s) ==
  RunHandler("productController.createProduct", s, productControllerCreateProductRun(s))
RunCreateProduct(s) == RunHandler("createProduct", s, createProductRun(s))
RunUpdateInventoryQuantity(s) ==
  RunHandler("updateInventoryQuantity", s, updateInventoryQuantityRun(s))
RunDeleteCategory(s) == RunHandler("deleteCategory", s, deleteCategoryRun(s))

\* ------------------------------------------------------------------------
\* Specifications
\* ------------------------------------------------------------------------
NoCall == [fn |-> "none", hasUser |-> FALSE, role |-> NoRole, resource |-> "",
           action |-> "", result |-> ""]

Init ==
  /\ users = [u \in UserIds |-> [role |-> UserRole[u], isActive |-> TRUE,
                                 email |-> UserEmail[u],
                                 password |-> bcryptHash(InitialPassword),
                                 lastLogin |-> Null, passwordResetToken |-> NoHash,
                                 passwordResetExpires |-> Null]]
  /\ categories = InitialCategories
  /\ products = << >>
  /\ variants = << >>
  /\ inventory = << >>
  /\ nextId = InitialNextId
  /\ last = NoRequest
  /\ probe = NoCall
  /\ pending = {}
  /\ now = 1

\* the answer has been sent and the call has returned: req, res and the
\* call's result are discarded
EndRequest ==
  /\ last.route # "none" \/ probe.fn # "none"
  /\ last' = NoRequest
  /\ probe' = NoCall
  /\ UNCHANGED <<users, categories, products, variants, inventory, nextId, pending, now>>

\* the product routes, over products some of which have a variant
Next ==
  \/ \E auth \in CatalogAuths, b \in CreateProductBodies : PostProduct(auth, b)
  \/ \E auth \in CatalogAuths, id \in ProductIds, b \in UpdateProductBodies :
        PutProduct(auth, id, b)
  \/ \E auth \in CatalogAuths, id \in ProductIds : DeleteProduct(auth, id)
  \/ \E auth \in CatalogAuths, pid \in ProductIds, b \in SeedVariantBodies :
        PostVariant(auth, pid, b)
  \/ EndRequest

Spec == Init /\ [][Next]_vars

\* the variant routes, over products created without inventory
NextVariants ==
  \/ \E auth \in SellerAuths, b \in PlainProductBodies : PostProduct(auth, b)
  \/ \E auth \in CatalogAuths, pid \in ProductIds, b \in CreateVariantBodies :
        PostVariant(auth, pid, b)
  \/ \E auth \in CatalogAuths, pid \in ProductIds, id \in VariantIds, b \in UpdateVariantBodies :
        PutVariant(auth, pid, id, b)
  \/ \E auth \in CatalogAuths, pid \in ProductIds, id \in VariantIds : DeleteVariant(auth, pid, id)
  \/ EndRequest

SpecVariants == Init /\ [][NextVariants]_vars

\* the inventory and report routes, over products and variants created
\* with inventory
NextInventory ==
  \/ \E auth \in CatalogAuths, b \in SeedProductBodies : PostProduct(auth, b)
  \/ \E auth \in CatalogAuths, pid \in ProductIds, b \in SeedVariantBodies :
        PostVariant(auth, pid, b)
  \/ \E auth \in CatalogAuths, route \in InventoryListRoutes : GetInventoryList(auth, route)
  \/ \E auth \in CatalogAuths, id \in InventoryIds : GetInventory(auth, id)
  \/ \E auth \in CatalogAuths, id \in InventoryIds, b \in InventoryBodies : PutInventory(auth, id, b)
  \/ \E auth \in CatalogAuths, updates \in Batches : PatchInventoryQuantity(auth, updates)
  \/ \E auth \in CatalogAuths, route \in ReportRoutes : GetReport(auth, route)
  \/ EndRequest

SpecInventory == Init /\ [][NextInventory]_vars

\* authentication: accounts are deactivated, reactivated and removed between
\* requests that carry every kind of token
NextAuth ==
  \/ \E u \in UserIds, flag \in BOOLEAN : SetUserActive(u, flag)
  \/ \E u \in UserIds : RemoveUser(u)
  \/ \E auth \in AllAuths, b \in SeedProductBodies : PostProduct(auth, b)
  \/ \E auth \in AllAuths, id \in ProductIds : DeleteProduct(auth, id)
  \/ EndRequest

SpecAuth == Init /\ [][NextAuth]_vars

\* every product and variant route that mounts checkPermission, asked by
\* every requester with a rejected and with a well-formed body
NextGate ==
  \/ \E auth \in CatalogAuths, b \in {InvalidProductBody} \cup PlainProductBodies :
        PostProduct(auth, b)
  \/ \E auth \in CatalogAuths, id \in ProductIds, b \in {InvalidProductBody} \cup PlainProductBodies :
        PutProduct(auth, id, b)
  \/ \E auth \in CatalogAuths, id \in ProductIds : DeleteProduct(auth, id)
  \/ \E auth \in CatalogAuths, pid \in ProductIds, b \in {InvalidVariantBody} \cup SeedVariantBodies :
        PostVariant(auth, pid, b)
  \/ \E auth \in CatalogAuths, pid \in ProductIds, id \in VariantIds,
        b \in {InvalidVariantBody} \cup SeedVariantBodies : PutVariant(auth, pid, id, b)
  \/ \E auth \in CatalogAuths, pid \in ProductIds, id \in VariantIds : DeleteVariant(auth, pid, id)
  \/ EndRequest

SpecGate == Init /\ [][NextGate]_vars

\* products that set the scene for the category specifications
CategorySeedBodies == [valid : {TRUE}, sku : {"p-a"}, categoryId : CategoryIds, inv : {NoQuantity},
                       userId : {Null}]

\* what both category routers have in common
NextCategoryReads ==
  \/ \E auth \in CatalogAuths, route \in CategoryListRoutes : GetCategories(auth, route)
  \/ \E auth \in CatalogAuths, id \in CategoryIds : GetCategory(auth, id)
  \/ \E b \in CategorySeedBodies : PostProduct(ValidToken(2), b)
  \/ EndRequest

\* the category routes of the router that mounts protect and checkPermission
NextCategories ==
  \/ \E auth \in CatalogAuths, b \in CategoryBodies : PostCategory(auth, b)
  \/ \E auth \in CatalogAuths, id \in CategoryIds, b \in CategoryBodies :
        PutCategory(auth, id, b)
  \/ \E auth \in CatalogAuths, id \in CategoryIds : DeleteCategory(auth, id)
  \/ NextCategoryReads

SpecCategories == Init /\ [][NextCategories]_vars

\* the category routes of the router that mounts neither
NextCategoriesOpen ==
  \/ \E auth \in CatalogAuths, b \in CategoryBodies : PostCategoryOpen(auth, b)
  \/ \E auth \in CatalogAuths, id \in CategoryIds, b \in CategoryBodies :
        PutCategoryOpen(auth, id, b)
  \/ \E auth \in CatalogAuths, id \in CategoryIds : DeleteCategoryOpen(auth, id)
  \/ NextCategoryReads

SpecCategoriesOpen == Init /\ [][NextCategoriesOpen]_vars

\* every handler that opens a transaction, under every outcome of its
\* store calls
NextTransactions ==
  \/ \E s \in CreateProductScenarios : RunProductControllerCreateProduct(s)
  \/ \E s \in CreateProductScenarios : RunCreateProduct(s)
  \/ \E s \in UpdateInventoryScenarios : RunUpdateInventoryQuantity(s)
  \/ \E s \in DeleteCategoryScenarios : RunDeleteCategory(s)
  \/ EndRequest

SpecTransactions == Init /\ [][NextTransactions]_vars

\* two sellers' products, and variants addressed under either product
AddressingCreateBodies == [valid : {TRUE}, sku : {"v-a"}, inv : {NoQuantity}]
AddressingUpdateBodies ==
  {InvalidVariantBody} \cup [valid : {TRUE}, sku : {Undefined, "v-b"}, inv : {NoQuantity}]
NextAddressing ==
  \/ \E auth \in SellerAuths, b \in PlainProductBodies : PostProductAmong(auth, b)
  \/ \E auth \in SellerAuths, pid \in SkuProductIds, b \in AddressingCreateBodies :
        PostVariantAmong(auth, pid, b)
  \/ \E auth \in CatalogAuths, pid \in SkuProductIds, id \in VariantIds,
        b \in AddressingUpdateBodies : PutVariantAmong(auth, pid, id, b)
  \/ \E auth \in CatalogAuths, pid \in SkuProductIds, id \in VariantIds :
        DeleteVariantAmong(auth, pid, id)
  \/ EndRequest

SpecAddressing == Init /\ [][NextAddressing]_vars

\* every route that writes products, variants or inventory, with bodies
\* that carry a userId
OwnershipAuths == {ValidToken(1), ValidToken(2)}
\* the rows of a table that have no image yet
FirstImage(table) == {i \in DOMAIN table : table[i].images = 0}
OwnershipCreateBodies == [valid : {TRUE}, sku : {"p-a"}, categoryId : {1},
                          inv : {NoQuantity, 0}, userId : {Null, 3}]
OwnershipUpdateBodies == [valid : {TRUE}, sku : {Undefined, "p-b"}, categoryId : {Null},
                          inv : {NoQuantity, 0}, userId : {Null, 3}]
OwnershipVariantBodies == [valid : {TRUE}, sku : {"v-a"}, inv : {NoQuantity, 0}]

NextOwnership ==
  \/ \E auth \in OwnershipAuths, b \in OwnershipCreateBodies : PostProduct(auth, b)
  \/ \E auth \in OwnershipAuths, id \in ProductIds, b \in OwnershipUpdateBodies :
        PutProduct(auth, id, b)
  \/ \E auth \in OwnershipAuths, id \in ProductIds : DeleteProduct(auth, id)
  \/ \E auth \in OwnershipAuths, pid \in ProductIds, b \in OwnershipVariantBodies :
        PostVariant(auth, pid, b)
  \/ \E auth \in OwnershipAuths, pid \in ProductIds, id \in VariantIds,
        b \in OwnershipVariantBodies : PutVariant(auth, pid, id, b)
  \/ \E auth \in OwnershipAuths, pid \in ProductIds, id \in VariantIds :
        DeleteVariant(auth, pid, id)
  \/ \E id \in InventoryIds : PutInventory(NoAuth, id, [valid |-> TRUE, quantity |-> 0])
  \/ \E id \in InventoryIds :
        PatchInventoryQuantity(NoAuth, <<[id |-> id, quantity |-> 0]>>)
  \/ \E auth \in OwnershipAuths, pid \in FirstImage(products) :
        PostProductImages(auth, pid, 1)
  \/ \E auth \in OwnershipAuths, vid \in FirstImage(variants) :
        PostVariantImages(auth, vid, 1)
  \/ \E auth \in OwnershipAuths, pid \in ProductIds : DeleteProductImage(auth, pid, 0)
  \/ EndRequest

SpecOwnership == Init /\ [][NextOwnership]_vars

\* logins, of accounts that are deactivated and reactivated
NextLogin ==
  \/ \E b \in LoginBodies : Login(b)
  \/ \E u \in {2}, flag \in BOOLEAN : SetUserActive(u, flag)
  \/ Tick
  \/ EndRequest

SpecLogin == Init /\ [][NextLogin]_vars

\* password resets: tokens are issued, time passes, tokens are used
NextReset ==
  \/ \E email \in LoginEmails, t \in ResetTokens : ForgotPassword(email, t)
  \/ \E t \in ResetTokens, password \in Passwords : ResetPassword(t, password)
  \/ \E b \in LoginBodies : Login(b)
  \/ Tick
  \/ EndRequest

SpecReset == Init /\ [][NextReset]_vars

\* products are created active or inactive, switched, and read by everyone
VisibilityCreateBodies == [valid : {TRUE}, sku : {"p-a"}, categoryId : {1}, inv : {NoQuantity},
                           userId : {Null}, isActive : BOOLEAN]
VisibilityUpdateBodies == [valid : {TRUE}, sku : {Undefined}, categoryId : {Null},
                           inv : {NoQuantity}, userId : {Null}, isActive : BOOLEAN]

NextVisibility ==
  \/ \E auth \in SellerAuths, b \in VisibilityCreateBodies : PostProduct(auth, b)
  \/ \E auth \in SellerAuths, id \in ProductIds, b \in VisibilityUpdateBodies :
        PutProduct(auth, id, b)
  \/ \E auth \in SellerAuths, pid \in ProductIds, b \in SeedVariantBodies :
        PostVariant(auth, pid, b)
  \/ \E auth \in CatalogAuths, id \in ProductIds : GetProduct(auth, id)
  \/ \E auth \in CatalogAuths, id \in ProductIds : GetProductVariants(auth, id)
  \/ EndRequest

SpecVisibility == Init /\ [][NextVisibility]_vars

\* batch updates of inventory quantities, with and without a throw
NextBatch ==
  \/ \E auth \in SellerAuths, b \in SeedProductBodies : PostProduct(auth, b)
  \/ \E auth \in SellerAuths, pid \in ProductIds, b \in SeedVariantBodies :
        PostVariant(auth, pid, b)
  \/ \E auth \in {NoAuth}, updates \in Batches : PatchInventoryQuantity(auth, updates)
  \/ \E auth \in {NoAuth}, updates \in Batches \ {<< >>}, k \in 1..(MaxBatch + 1),
        err \in StoreErrors : PatchInventoryQuantityThrows(auth, updates, k, err)
  \/ EndRequest

SpecBatch == Init /\ [][NextBatch]_vars

\* creations and updates of products, each in two steps that interleave
\* with the steps of other requests
NextSku ==
  \/ \E auth \in SellerAuths, b \in SkuCreateBodies : BeginPostProduct(auth, b)
  \/ \E auth \in SellerAuths, id \in SkuProductIds, b \in SkuUpdateBodies :
        BeginPutProduct(auth, id, b)
  \/ \E r \in pending : CommitPostProduct(r)
  \/ \E r \in pending : CommitPutProduct(r)
  \/ EndRequest

SpecSku == Init /\ [][NextSku]_vars

\* products with their variants and inventory are created, read and deleted
NextLifecycle ==
  \/ \E auth \in SellerAuths, b \in SeedProductBodies \cup PlainProductBodies :
        PostProduct(auth, b)
  \/ \E auth \in SellerAuths, pid \in ProductIds, b \in SeedVariantBodies :
        PostVariant(auth, pid, b)
  \/ \E auth \in CatalogAuths, id \in ProductIds : DeleteProduct(auth, id)
  \/ \E auth \in CatalogAuths, pid \in ProductIds, id \in VariantIds :
        DeleteVariant(auth, pid, id)
  \/ \E auth \in CatalogAuths, id \in ProductIds : GetProduct(auth, id)
  \/ EndRequest

SpecLifecycle == Init /\ [][NextLifecycle]_vars

\* the image routes, over products and variants their sellers created
NextImages ==
  \/ \E auth \in CatalogAuths, pid \in ProductIds, files \in ImageFiles :
        PostProductImages(auth, pid, files)
  \/ \E auth \in CatalogAuths, vid \in VariantIds, files \in ImageFiles :
        PostVariantImages(auth, vid, files)
  \/ \E auth \in CatalogAuths, pid \in ProductIds, index \in ImageIndexes :
        DeleteProductImage(auth, pid, index)
  \/ \E auth \in SellerAuths, b \in PlainProductBodies : PostProduct(auth, b)
  \/ \E auth \in SellerAuths, pid \in ProductIds, b \in SeedVariantBodies :
        PostVariant(auth, pid, b)
  \/ EndRequest

SpecImages == Init /\ [][NextImages]_vars

\* registrations, from requesters with and without a token
RegisterAuths == {NoAuth, ValidToken(1), ValidToken(2)}

NextRegister ==
  \/ \E auth \in RegisterAuths, b \in RegisterBodies : Register(auth, b)
  \/ EndRequest

SpecRegister == Init /\ [][NextRegister]_vars

\* the routes whose handler starts by looking the product up
LookupRoutes == (ProductRoutes \ {"POST /api/products"}) \cup VariantRoutes

\* store lookups that throw, over the sellers' products and their variants
NextFaults ==
  \/ \E auth \in SellerAuths, b \in SeedProductBodies : PostProduct(auth, b)
  \/ \E auth \in SellerAuths, pid \in ProductIds, b \in SeedVariantBodies :
        PostVariant(auth, pid, b)
  \/ \E route \in LookupRoutes, auth \in CatalogAuths, valid \in BOOLEAN,
        pid \in ProductIds, vid \in VariantIds, err \in StoreErrors :
        LookupThrows(route, auth, valid, pid, vid, err)
  \/ \E uid \in UserIds, id \in 0..MaxProductId, err \in StoreErrors :
        CheckOwnershipLookupThrows(uid, id, err)
  \/ EndRequest

SpecFaults == Init /\ [][NextFaults]_vars

\* the permission functions called on every name, and the ownership
\* middleware run for every user over the sellers' products
NextPerm ==
  \/ \E auth \in SellerAuths, b \in PlainProductBodies : PostProduct(auth, b)
  \/ \E uid \in UserIds, id \in ProductIds : CheckOwnershipCall(uid, id)
  \/ \E role \in ProbeRoles, resource \in ProbeResources, action \in ProbeActions :
        CallHasPermission(role, resource, action)
  \/ \E hasUser \in BOOLEAN, role \in ProbeRoles, resource \in ProbeResources,
        action \in ProbeActions : CallCheckPermission(hasUser, role, resource, action)
  \/ EndRequest

SpecPerm == Init /\ [][NextPerm]_vars

\* ------------------------------------------------------------------------
\* Properties
\* ------------------------------------------------------------------------
\* the store the last request left equals the store it found
StoreUnchanged == Store = last.pre

\* the permission table as the specification's section 4.1 lists it
Listed(role, resource, action) ==
  \/ /\ role = "admin"
     /\ \/ resource \in {"categories", "products", "variants", "users"}
        \/ resource = "inventory" /\ action \in {"view", "update"}
        \/ resource = "reports" /\ action = "view"
  \/ /\ role = "seller"
     /\ \/ resource \in {"categories", "reports", "users"} /\ action = "view"
        \/ resource \in {"products", "variants"}
        \/ resource = "inventory" /\ action \in {"view", "update"}
  \/ /\ role = "buyer"
     /\ resource \in {"categories", "products", "variants"}
     /\ action = "view"

C2_TotalDefaultDeny ==
  /\ (probe.fn = "hasPermission"
        /\ (probe.role \notin Roles \/ probe.resource \notin Resources
              \/ probe.action \notin Actions))
       => probe.result = "false"
  /\ (probe.fn = "checkPermission" /\ (~probe.hasUser \/ probe.role = NoRole))
       => probe.result = "403"

\* C3: for a request of an authenticated admin the authorization decision is
\* Allow for every resource and every action in {view, create, update,
\* delete}: the permission check never answers an admin 403, and neither does
\* the ownership check.
C3_AdminAlwaysAllowed ==
  /\ (probe.fn = "checkPermission" /\ probe.hasUser /\ probe.role = "admin"
        /\ probe.resource \in Resources /\ probe.action \in Actions)
       => probe.result = "next"
  /\ (last.route = "checkOwnership(Product)" /\ UserRole[last.user] = "admin")
       => last.status # 403

C5_DeniedBeforeValidationAndLookup ==
  (/\ last.route \in ProductRoutes \cup VariantRoutes
   /\ last.user # Null
   /\ ~Listed(UserRole[last.user], RouteResource(last.route), RouteAction(last.route)))
    => /\ last.status = 403
       /\ last.stage = "permission"
       /\ StoreUnchanged

C5_Witness ==
  /\ last.route = "PUT /api/products/:id"
  /\ last.user # Null
  /\ UserRole[last.user] = "buyer"
  /\ ~last.valid
  /\ last.pid \notin DOMAIN products
  /\ last.status = 403

\* C6: an update or delete of a product id that names no product, asked by
\* an admin or a seller, is answered 404 (400 when the validators reject the
\* body) and never 403, and the store is unchanged.
C6_MissingProductIs404 ==
  (/\ last.route \in {"PUT /api/products/:id", "DELETE /api/products/:id"}
   /\ last.user # Null
   /\ UserRole[last.user] \in {"admin", "seller"}
   /\ last.pid \notin DOMAIN last.pre.products)
    => /\ last.valid => last.status = 404
       /\ last.status \in {400, 404}
       /\ StoreUnchanged

C6_Witness ==
  /\ last.route = "DELETE /api/products/:id"
  /\ last.user # Null
  /\ UserRole[last.user] = "seller"
  /\ last.pid \notin DOMAIN last.pre.products
  /\ nextId.product > last.pid
  /\ last.status = 404

OwningProduct(st, i) ==
  IF st.inventory[i].productId # Null THEN st.inventory[i].productId
  ELSE st.variants[st.inventory[i].variantId].productId

\* the request carries a token of an active seller who does not own the
\* product of inventory row i
ForeignSeller(st, i) ==
  /\ last.auth.kind = "valid"
  /\ UserRole[last.auth.uid] = "seller"
  /\ i \in DOMAIN st.inventory
  /\ st.products[OwningProduct(st, i)].userId # last.auth.uid

\* C8: a seller's update of an inventory record whose owning product belongs
\* to a different seller (PUT /api/inventory/:id, or an entry of PATCH
\* /api/inventory/update-quantity) is denied with 403 and the record is
\* unchanged.
C8_ForeignInventoryDenied ==
  /\ (last.route = "PUT /api/inventory/:id" /\ ForeignSeller(last.pre, last.iid))
       => last.status = 403 /\ StoreUnchanged
  /\ (last.route = "PATCH /api/inventory/update-quantity"
        /\ \E k \in DOMAIN last.batch : ForeignSeller(last.pre, last.batch[k].id))
       => last.status = 403 /\ StoreUnchanged

\* C9: a request passes protect (next is called with req.user set) only if
\* it carries a token that verifies and the user it names exists and is
\* active at the time of the request; in every other case the answer is 401
\* and nothing after protect runs, so a token issued before its user was
\* deactivated or removed is rejected afterwards.
C9_ProtectPassesOnlyActiveUsers ==
  (last.route \in ProductRoutes \cup VariantRoutes)
    => IF /\ last.auth.kind = "valid"
          /\ last.auth.uid \in DOMAIN users
          /\ users[last.auth.uid].isActive
       THEN last.stage # "protect" /\ last.user = last.auth.uid /\ last.status # 401
       ELSE last.stage = "protect" /\ last.status = 401 /\ last.user = Null /\ StoreUnchanged

C9_Witness ==
  /\ last.route = "DELETE /api/products/:id"
  /\ last.auth.kind = "valid"
  /\ last.auth.uid \in DOMAIN users
  /\ ~users[last.auth.uid].isActive
  /\ last.pid \in DOMAIN products
  /\ products[last.pid].userId = last.auth.uid
  /\ last.status = 401

\* C10: no inventory endpoint and no report endpoint answers successfully to
\* a buyer or to an unauthenticated requester.
C10_InventoryAndReportsClosed ==
  (/\ last.route \in InventoryRoutes \cup ReportRoutes
   /\ \/ last.auth.kind # "valid"
      \/ UserRole[last.auth.uid] = "buyer")
    => last.status \in {401, 403}

\* C11: creating, updating or deleting a category succeeds only for an
\* authenticated admin: a seller or a buyer is answered 403, an
\* unauthenticated requester 401, in both cases with the category store
\* unchanged; viewing categories needs no authentication.
C11_CategoryWritesAdminOnly ==
  /\ (last.route \in CategoryWriteRoutes /\ last.auth.kind = "valid"
        /\ UserRole[last.auth.uid] \in {"seller", "buyer"})
       => last.status = 403 /\ categories = last.pre.categories
  /\ (last.route \in CategoryWriteRoutes /\ last.auth.kind # "valid")
       => last.status = 401 /\ categories = last.pre.categories
  /\ (last.route \in CategoryListRoutes) => last.status = 200
  /\ (last.route = "GET /api/categories/:id" /\ last.cid \in DOMAIN categories)
       => last.status = 200

\* C20: a category that has at least one subcategory cannot be deleted: the
\* delete is answered 400 by the handler (401 or 403 when the requester does
\* not reach the handler), and the category, all its subcategories and the
\* rest of the store remain as they were.
C20_CategoryWithSubcategoriesKept ==
  (/\ last.route = "DELETE /api/categories/:id"
   /\ last.cid \in DOMAIN last.pre.categories
   /\ SubcategoriesOf(last.pre, last.cid) # {})
    => /\ last.stage = "handler" => last.status = 400
       /\ last.status \in {400, 401, 403}
       /\ StoreUnchanged

C20_Witness ==
  /\ last.route = "DELETE /api/categories/:id"
  /\ last.stage = "handler"
  /\ last.cid \in DOMAIN categories
  /\ SubcategoriesOf(Store, last.cid) # {}
  /\ last.status = 400

C13_LookupErrorIs500 ==
  /\ (last.err # NoError /\ last.route \in LookupRoutes /\ last.stage = "handler")
       => last.status = 500 /\ StoreUnchanged
  /\ (last.err # NoError /\ last.route = "checkOwnership(Product)"
        /\ UserRole[last.user] # "admin" /\ last.pid # Null)
       => last.status = 500 /\ StoreUnchanged

\* C15: a seller has no permission on the users resource:
\* hasPermission('seller', 'users', action) is false for view, create,
\* update and delete.
C15_SellerHasNoUsersPermission ==
  (probe.fn = "hasPermission" /\ probe.role = "seller" /\ probe.resource = "users"
     /\ probe.action \in Actions)
    => probe.result = "false"

\* C16: a registration that asks for role admin creates an admin only when
\* the requester is an authenticated admin, and a buyer from anyone else; one
\* that asks for seller or buyer creates that role; one that names no role
\* creates a buyer.
C16_RegisteredRole ==
  (last.route = "POST /api/auth/register" /\ last.status = 201)
    => LET created == users[last.pre.nextId.user]
           byAdmin == /\ last.auth.kind = "valid"
                      /\ last.auth.uid \in DOMAIN users
                      /\ users[last.auth.uid].isActive
                      /\ users[last.auth.uid].role = "admin"
       IN created.role =
            IF last.asked = "admin" THEN (IF byAdmin THEN "admin" ELSE "buyer")
            ELSE IF last.asked = Undefined THEN "buyer"
            ELSE last.asked

\* C17: the image routes are open to an admin and to the seller who owns
\* the product (of the variant), and to nobody else: the owner is not
\* answered 403; another seller is answered 403 and no imageUrls change.
C17_ImagesAdminOrOwner ==
  LET pid == IF last.route = "POST /api/images/variants/:variantId"
               THEN (IF last.vid \in DOMAIN last.pre.variants
                       THEN last.pre.variants[last.vid].productId ELSE Null)
               ELSE last.pid
  IN (last.route \in ImageRoutes /\ last.user # Null /\ pid \in DOMAIN last.pre.products)
       => IF users[last.user].role = "admin"
             \/ (users[last.user].role = "seller"
                   /\ last.pre.products[pid].userId = last.user)
          THEN last.status # 403
          ELSE last.status = 403 /\ StoreUnchanged

\* C18: after a successful delete of a product a get of its id is answered
\* 404 and no variant and no inventory record refers to it; in every
\* reachable state each variant's productId names an existing product (and
\* each inventory record an existing product or variant), and an id once
\* deleted is never given to another product.
C18_NoOrphansAfterDelete ==
  /\ \A v \in DOMAIN variants : variants[v].productId \in DOMAIN products
  /\ \A i \in DOMAIN inventory :
        /\ inventory[i].productId # Null => inventory[i].productId \in DOMAIN products
        /\ inventory[i].variantId # Null => inventory[i].variantId \in DOMAIN variants
  /\ \A p \in DOMAIN products : p < nextId.product
  /\ (last.route = "DELETE /api/products/:id" /\ last.status = 200)
       => /\ last.pid \notin DOMAIN products
          /\ getProductById(Store, FALSE, Null, NoRole, last.pid).status = 404
          /\ \A i \in DOMAIN inventory :
                inventory[i].variantId \notin VariantsOfProduct(last.pre, last.pid)
  /\ (last.route = "GET /api/products/:id" /\ last.pid \notin DOMAIN products)
       => last.status = 404

C18_Witness ==
  /\ last.route = "DELETE /api/products/:id"
  /\ last.status = 200
  /\ VariantsOfProduct(last.pre, last.pid) # {}
  /\ \E i \in DOMAIN last.pre.inventory :
        last.pre.inventory[i].variantId \in VariantsOfProduct(last.pre, last.pid)
  /\ variants = << >>
  /\ inventory = << >>

\* C19: product SKUs are unique in every reachable state, also when requests
\* interleave: a create (that reaches the handler) whose sku is that of an
\* existing product, and an update (by a requester who may update the
\* product) that changes the sku to one used by another product, is
\* answered 400 and the store is unchanged.
C19_ProductSkusUnique ==
  /\ \A p \in DOMAIN products, q \in DOMAIN products :
        p # q => products[p].sku # products[q].sku
  /\ (last.route = "POST /api/products" /\ last.stage = "handler"
        /\ SkuUsedByProduct(last.pre, last.sku, Null))
       => last.status = 400 /\ StoreUnchanged
  /\ (last.route = "PUT /api/products/:id" /\ last.stage = "handler"
        /\ last.pid \in DOMAIN last.pre.products
        /\ last.pre.products[last.pid].userId = last.user
        /\ last.sku # last.pre.products[last.pid].sku
        /\ SkuUsedByProduct(last.pre, last.sku, last.pid))
       => last.status = 400 /\ StoreUnchanged

\* two requests passed their SKU lookups before either stored its sku; the
\* second to reach the table is refused by the unique index
C19_Witness ==
  /\ last.route = "PUT /api/products/:id"
  /\ last.err = UniqueConstraintError
  /\ last.status = 400
  /\ Cardinality(DOMAIN products) = 2
  /\ \E p \in DOMAIN products : p # last.pid /\ products[p].sku = last.sku
  /\ products[last.pid].sku # last.sku

\* the entries of a batch that the handler reports, in order
Reported(updates) == SelectSeq(updates, LAMBDA u : u.id # 0)

\* the quantity record `id` has when entry k of the batch is reached
QuantityBefore(st, updates, k, id) ==
  ApplyUpdates(st, Prefix(updates, k - 1), 1).inventory[id].quantity

\* the answer of a batch that was answered 200, for the entries with an id
BatchAnswerCorrect ==
  LET rep == Reported(last.batch)
  IN /\ Len(last.results) = Len(rep)
     /\ \A j \in DOMAIN rep :
           /\ last.results[j].id = rep[j].id
           /\ IF rep[j].id \in DOMAIN last.pre.inventory
              THEN /\ last.results[j].success
                   /\ last.results[j].newQuantity = rep[j].quantity
                   /\ last.results[j].oldQuantity =
                        QuantityBefore(last.pre, rep, j, rep[j].id)
              ELSE ~last.results[j].success
     /\ \A i \in DOMAIN inventory :
           LET named == {k \in DOMAIN last.batch : last.batch[k].id = i}
           IN IF named = {} THEN inventory[i] = last.pre.inventory[i]
              ELSE LET k == CHOOSE n \in named : \A m \in named : m <= n
                   IN inventory[i].quantity = last.batch[k].quantity
     /\ DOMAIN inventory = DOMAIN last.pre.inventory

AdminOrOwner(auth, st, pid) ==
  /\ auth.kind = "valid"
  /\ auth.uid \in DOMAIN users
  /\ users[auth.uid].isActive
  /\ \/ users[auth.uid].role = "admin"
     \/ users[auth.uid].role = "seller" /\ st.products[pid].userId = auth.uid

ProductGetRoutes == {"GET /api/products/:id", "GET /api/products/:id/variants"}

C27_InactiveVisibleToAdminAndOwner ==
  (last.route \in ProductGetRoutes /\ last.pid \in DOMAIN last.pre.products
     /\ ~last.pre.products[last.pid].isActive
     /\ AdminOrOwner(last.auth, last.pre, last.pid))
    => last.status = 200

\* C23: login returns a token only when the email names a user, the
\* password matches that user's and the user is active; a wrong email, a
\* wrong password and a deactivated account are each answered 401 with no
\* token and without an update of lastLogin (or of anything else).
C23_LoginOnlyActiveMatching ==
  (last.route = "POST /api/auth/login" /\ last.stage = "handler")
    => LET found == UserByEmail(last.preUsers, last.asked)
           ok == /\ found # {}
                 /\ \A u \in found :
                       /\ isPasswordMatch(last.preUsers[u], last.sku)
                       /\ last.preUsers[u].isActive
       IN IF ok
          THEN /\ last.status = 200
               /\ last.token.kind = "valid"
               /\ last.token.uid \in found
               /\ users[last.token.uid].lastLogin = now
          ELSE /\ last.status = 401
               /\ last.token = NoAuth
               /\ users = last.preUsers

C23_Witness ==
  /\ last.route = "POST /api/auth/login"
  /\ last.stage = "handler"
  /\ last.asked = "s2@x"
  /\ isPasswordMatch(users[2], last.sku)
  /\ ~users[2].isActive
  /\ users[2].lastLogin # Null
  /\ users[2].lastLogin < now
  /\ last.status = 401

\* C28: resetPassword with a token forgotPassword issued, used before it
\* expires, sets the new password and clears the stored token and expiry,
\* so a second use is answered 400; an unknown or expired token is answered
\* 400 and no password changes.
C28_ResetTokenOnceBeforeExpiry ==
  (last.route = "POST /api/auth/reset-password/:token")
    => LET holders == {u \in DOMAIN last.preUsers :
                         /\ last.preUsers[u].passwordResetToken = sha256(last.sku)
                         /\ last.preUsers[u].passwordResetExpires > now}
       IN IF holders # {}
          THEN /\ last.status = 200
               /\ \E u \in holders :
                     /\ users[u].password = bcryptHash(last.asked)
                     /\ users[u].passwordResetToken = NoHash
                     /\ users[u].passwordResetExpires = Null
          ELSE /\ last.status = 400
               /\ users = last.preUsers

\* C24: in every reachable state each inventory record has exactly one of
\* productId and variantId set, and resolves to exactly one existing
\* product: directly, or through its variant's product.
C24_InventoryHasOneOwner ==
  \A i \in DOMAIN inventory :
    LET r == inventory[i]
    IN /\ (r.productId # Null) # (r.variantId # Null)
       /\ r.productId # Null => r.productId \in DOMAIN products
       /\ r.variantId # Null =>
             /\ r.variantId \in DOMAIN variants
             /\ variants[r.variantId].productId \in DOMAIN products

C24_Witness ==
  /\ last.route = "POST /api/products/:id/variants"
  /\ last.status = 201
  /\ \E i \in DOMAIN inventory :
        /\ i \notin DOMAIN last.pre.inventory
        /\ inventory[i].variantId # Null
        /\ inventory[i].productId = Null
        /\ variants[inventory[i].variantId].productId = last.pid

\* C29: a product's userId is set when it is created and changed by no
\* later request, whatever its body carries: a request leaves the userId of
\* every product it found and keeps; only POST /api/products adds a
\* product, owned by its requester, and only a delete of the product
\* answered 200 removes one.
C29_OwnerNeverChanges ==
  (last.route # "none")
    => /\ \A p \in DOMAIN products \cap DOMAIN last.pre.products :
             products[p].userId = last.pre.products[p].userId
       /\ \A p \in DOMAIN products \ DOMAIN last.pre.products :
             /\ last.route = "POST /api/products"
             /\ last.status = 201
             /\ products[p].userId = last.user
       /\ \A p \in DOMAIN last.pre.products \ DOMAIN products :
             /\ last.route = "DELETE /api/products/:id"
             /\ last.status = 200
             /\ last.pid = p

C29_Witness ==
  /\ last.route = "PUT /api/products/:id"
  /\ last.status = 200
  /\ last.claimed = 3
  /\ products[last.pid].userId = 2
  /\ products[last.pid].sku # last.pre.products[last.pid].sku

VariantWriteRoutes == {"PUT /api/products/:productId/variants/:id",
                       "DELETE /api/products/:productId/variants/:id"}

\* C25: a variant update or delete addressed as
\* /api/products/:productId/variants/:id is applied only when the variant's
\* productId equals :productId; otherwise nothing changes, and the request
\* of a requester who may write product :productId (and any request whose
\* :productId names no product) is answered 404.
C25_VariantAddressedUnderItsProduct ==
  (last.route \in VariantWriteRoutes /\ last.vid \in DOMAIN last.pre.variants
     /\ last.pre.variants[last.vid].productId # last.pid)
    => /\ StoreUnchanged
       /\ last.status \in {400, 401, 403, 404}
       /\ (last.stage = "handler"
             /\ (last.pid \in DOMAIN last.pre.products
                   => \/ users[last.user].role = "admin"
                      \/ last.pre.products[last.pid].userId = last.user))
            => last.status = 404

\* a seller addresses a variant of another seller's product under a
\* product of their own
C25_Witness ==
  /\ last.route \in VariantWriteRoutes
  /\ last.vid \in DOMAIN variants
  /\ last.pid \in DOMAIN products
  /\ variants[last.vid].productId # last.pid
  /\ last.stage = "handler"
  /\ users[last.user].role = "seller"
  /\ products[last.pid].userId = last.user
  /\ products[variants[last.vid].productId].userId # last.user
  /\ last.status = 404

\* following parentId from category c for at most `steps` hops ends at a
\* category without a parent
RECURSIVE ReachesRoot(_, _, _)
ReachesRoot(cats, c, steps) ==
  IF c \notin DOMAIN cats THEN FALSE
  ELSE IF cats[c].parentId = Null THEN TRUE
  ELSE IF steps = 0 THEN FALSE
  ELSE ReachesRoot(cats, cats[c].parentId, steps - 1)

\* C26: after any sequence of category creates and updates, following
\* parentId from any category reaches a category with no parent without
\* visiting any category twice.
C26_CategoriesFormForest ==
  \A c \in DOMAIN categories : ReachesRoot(categories, c, Cardinality(DOMAIN categories) - 1)

\* C30: every handler that opens a transaction finishes it exactly once, by
\* commit or by rollback and never by both or by neither, on every path
\* (early answers, errors before the commit, errors after the commit), and
\* the request ends with exactly one response or one call of the error
\* handler.
C30_TransactionFinishedOnce ==
  probe.fn = "transaction"
    => /\ probe.run.commits + probe.run.rollbacks = 1
       /\ probe.run.responses + probe.run.nextCalls = 1
       /\ ~probe.run.escaped

\* the handlers other than productController.createProduct: the
\* ownership-aware createProduct tests transaction.finished before it rolls
\* back, updateInventoryQuantity and deleteCategory await nothing after
\* their commit
C30_HandlersWithoutThrowAfterCommit ==
  (probe.fn = "transaction" /\ probe.handler # "productController.createProduct")
    => /\ probe.run.commits + probe.run.rollbacks = 1
       /\ probe.run.responses + probe.run.nextCalls = 1
       /\ ~probe.run.escaped

====
